---------------------------- MODULE Spec2Model ----------------------------
(***************************************************************************)
(* Model of the review ingestion engine (backend/scraper_service.py) and   *)
(* of the store tables it reads and writes.                                *)
(*                                                                         *)
(* The engine runs on one asyncio event loop: code between two awaits is   *)
(* one atomic step.  The awaits of the run task are the page request       *)
(* (client.get), the rate-limit sleep and client.aclose(); start() and     *)
(* stop() hold no await inside their lock and are atomic.                  *)
(*                                                                         *)
(* Time is in whole seconds; a day has DayLen seconds.  Wall-clock fields  *)
(* of Progress (start_time, avg_request_seconds, rate_limit_rpm) and the   *)
(* ETA estimates are not modelled.  Log entries are modelled by their      *)
(* message kind (the text without timestamp and interpolated values).      *)
(***************************************************************************)
EXTENDS Integers, Sequences, FiniteSets, TLC

\* ------------------------------------------------------------------ bounds

\* non-empty pages upstream serves in total before it only returns empty pages
MaxPages == 1
\* runs that may be started
MaxRuns == 2
\* stop() calls that take effect within one run
MaxStops == 1
\* seconds per day of the model's calendar
DayLen == 2

\* ------------------------------------------------------- program constants

\* Python's None for the optional numbers and dates
None == -999
\* Progress.log keeps the last 100 entries
LogCap == 100
\* max_reviews when the payload gives none
DefaultMaxReviews == 1000
\* playtime_forever is in minutes, playtime_hours = minutes / 60.0
MinutesPerHour == 60

Range(f) == {f[i] : i \in DOMAIN f}

Max2(a, b) == IF a >= b THEN a ELSE b

Min2(a, b) == IF a <= b THEN a ELSE b

\* dict.get(key, default)
Get(d, k, default) == IF k \in DOMAIN d THEN d[k] ELSE default

\* {**a, **b}
Merge(a, b) == [k \in (DOMAIN a) \cup (DOMAIN b) |-> IF k \in DOMAIN b THEN b[k] ELSE a[k]]

\* str.lower() on the language names of the model
Lower(s) == IF s = "English" THEN "english" ELSE s

\* parse_date: the day's first second, or with end_of_day its last instant
\* (one microsecond before the next day: for whole-second dates, its last second)
parse_date(d, end_of_day) ==
    IF d = None THEN None
    ELSE IF end_of_day THEN (d + 1) * DayLen - 1 ELSE d * DayLen

\* utc_from_unix(ts).replace(tzinfo=None): naive UTC, the same instant in seconds
utc_from_unix(ts) == ts

\* playtime_hours = float(minutes) / 60.0, kept as an exact fraction
ToHours(minutes) == [num |-> minutes, den |-> MinutesPerHour]

\* A lower-bound test that also rejects playtime_hours = bound
HoursLt_OrEqual(h, bound) == h.num <= bound * h.den

\* playtime_hours < bound, playtime_hours > bound (bound in hours)
HoursLt(h, bound) == h.num < bound * h.den

HoursGt(h, bound) == h.num > bound * h.den

\* -------------------------------------------------------------- the inputs

\* Games the user may have added; list_games orders them by name
GameAlpha == [app_id |-> 2, name |-> "Alpha"]

GameBeta == [app_id |-> 1, name |-> "Beta"]

NameRank(n) == IF n = "Alpha" THEN 1 ELSE 2

\* Reviews as upstream returns them. An absent key is an absent field.
RA == [recommendationid |-> "1", timestamp_created |-> 1, review |-> "a",
       language |-> "english", written_during_early_access |-> FALSE,
       received_for_free |-> FALSE, playtime_forever |-> 120]

RB == [recommendationid |-> "2", timestamp_created |-> 2, review |-> "b",
       language |-> "English", written_during_early_access |-> FALSE,
       received_for_free |-> FALSE, playtime_forever |-> 60]

RC == [recommendationid |-> "3", timestamp_created |-> 3, review |-> "c",
       language |-> "spanish", written_during_early_access |-> FALSE,
       received_for_free |-> FALSE, playtime_forever |-> 120]

\* review 1 again, edited since
RD == [recommendationid |-> "1", timestamp_created |-> 3, review |-> "a2",
       language |-> "english", written_during_early_access |-> FALSE,
       received_for_free |-> FALSE, playtime_forever |-> 180]

RE == [recommendationid |-> "4", timestamp_created |-> 2, review |-> "e",
       language |-> "english", written_during_early_access |-> TRUE,
       received_for_free |-> FALSE, playtime_forever |-> 90]

RF == [recommendationid |-> "5", timestamp_created |-> 0, review |-> "f",
       received_for_free |-> TRUE, playtime_forever |-> 30]

RNoId == [timestamp_created |-> 1, review |-> "g", language |-> "english"]

RNoTs == [recommendationid |-> "6", review |-> "h", language |-> "english"]

EmptyPage == [reviews |-> <<>>, total_reviews |-> 0, cursor |-> ""]

\* Response bodies of GET appreviews: reviews, query_summary.total_reviews, cursor
Pages ==
    { [reviews |-> <<RA>>, total_reviews |-> 2, cursor |-> "c1"],
      [reviews |-> <<RA, RB>>, total_reviews |-> 0, cursor |-> "c2"],
      [reviews |-> <<RC, RE>>, total_reviews |-> 1, cursor |-> "c1"],
      [reviews |-> <<RD, RF, RNoTs>>, total_reviews |-> 2, cursor |-> ""],
      [reviews |-> <<RB, RNoId, RB>>, total_reviews |-> 2, cursor |-> "c2"] }

\* The ways a page request fails: client.get raises (timeout, network), or the
\* response has an error status and raise_for_status raises
HttpErrors == {"get_raises", "bad_status"}

\* settings_payload of start(): global_settings and per_game_overrides, the
\* overrides keyed by app_id
Payloads ==
    { [global_settings |-> [max_reviews |-> 2, language |-> "english"],
       per_game_overrides |-> <<>>],
      [global_settings |-> [max_reviews |-> 1, language |-> "English"],
       per_game_overrides |-> [a \in {1} |-> [max_reviews |-> 3]]],
      [global_settings |-> [complete_scraping |-> TRUE],
       per_game_overrides |-> <<>>],
      [global_settings |-> [max_reviews |-> 3, start_date |-> 1],
       per_game_overrides |-> <<>>],
      [global_settings |-> [max_reviews |-> 3, end_date |-> 0, early_access |-> "exclude",
                            received_for_free |-> "exclude"],
       per_game_overrides |-> <<>>],
      [global_settings |-> [max_reviews |-> 3, min_playtime |-> 1, max_playtime |-> 2],
       per_game_overrides |-> <<>>],
      [global_settings |-> [max_reviews |-> 2, min_playtime |-> 2, max_playtime |-> 1],
       per_game_overrides |-> <<>>],
      [global_settings |-> [max_reviews |-> 2],
       per_game_overrides |-> [a \in {2} |-> [min_playtime |-> 2, max_playtime |-> 2]]],
      [global_settings |-> [max_reviews |-> 1],
       per_game_overrides |-> <<>>],
      [global_settings |-> [max_reviews |-> 3, early_access |-> "only"],
       per_game_overrides |-> <<>>],
      [global_settings |-> [max_reviews |-> 3, received_for_free |-> "only"],
       per_game_overrides |-> <<>>],
      [global_settings |-> [max_reviews |-> 1, min_playtime |-> 2],
       per_game_overrides |-> [a \in {2} |-> [max_playtime |-> 1]]] }


\* ---------------------------------------------------------- ScrapeSettings

\* _run.make_settings: the ScrapeSettings of a raw settings dict
make_settings(raw) ==
    LET complete == Get(raw, "complete_scraping", FALSE)
    IN [max_reviews |-> IF complete THEN None ELSE Get(raw, "max_reviews", DefaultMaxReviews),
        complete_scraping |-> complete,
        language |-> Get(raw, "language", "english"),
        start_date |-> parse_date(Get(raw, "start_date", None), FALSE),
        end_date |-> parse_date(Get(raw, "end_date", None), TRUE),
        early_access |-> Get(raw, "early_access", "include"),
        received_for_free |-> Get(raw, "received_for_free", "include"),
        min_playtime |-> Get(raw, "min_playtime", None),
        max_playtime |-> Get(raw, "max_playtime", None)]

\* settings_for_game.max_reviews or 0
MaxOrZero(s) == IF s.max_reviews = None THEN 0 ELSE s.max_reviews

\* A validation that lets equal playtime bounds pass
PlaytimeOk_Strict(raw) ==
    LET min_pt == Get(raw, "min_playtime", None)
        max_pt == Get(raw, "max_playtime", None)
    IN ~(min_pt # None /\ max_pt # None /\ max_pt < min_pt)

\* start(): the playtime bounds of one raw dict pass validation
PlaytimeOk(raw) ==
    LET min_pt == Get(raw, "min_playtime", None)
        max_pt == Get(raw, "max_playtime", None)
    IN ~(min_pt # None /\ max_pt # None /\ max_pt <= min_pt)

\* start(): global settings and every per-game override pass validation
PayloadOk(payload) ==
    /\ PlaytimeOk(payload.global_settings)
    /\ \A k \in DOMAIN payload.per_game_overrides : PlaytimeOk(payload.per_game_overrides[k])

\* ----------------------------------------------------------------- the store

\* crud.list_games: the Game rows ordered by name
RECURSIVE list_games(_)
list_games(gs) ==
    IF gs = {} THEN <<>>
    ELSE LET g == CHOOSE x \in gs : \A y \in gs : NameRank(x.name) <= NameRank(y.name)
         IN <<g>> \o list_games(gs \ {g})

\* The Review row _save_reviews builds from an upstream review
ReviewRow(r, app_id, s) ==
    [review_id |-> r.recommendationid,
     app_id |-> app_id,
     review_text |-> Get(r, "review", ""),
     review_date |-> utc_from_unix(r.timestamp_created),
     playtime_hours |-> ToHours(Get(r, "playtime_forever", 0)),
     language |-> Lower(Get(r, "language", s.language)),
     early_access |-> Get(r, "written_during_early_access", FALSE),
     received_for_free |-> Get(r, "received_for_free", FALSE)]

\* The filters _scrape_game puts on its two queries over stored reviews
\* (latest review_date, count of existing matches)
MatchesFilters(row, app_id, s) ==
    /\ row.app_id = app_id
    /\ s.start_date # None => row.review_date >= s.start_date
    /\ s.end_date # None => row.review_date <= s.end_date
    /\ Lower(s.language) # "" => Lower(row.language) = Lower(s.language)
    /\ s.early_access = "exclude" => ~row.early_access
    /\ s.early_access = "only" => row.early_access
    /\ s.received_for_free = "exclude" => ~row.received_for_free
    /\ s.received_for_free = "only" => row.received_for_free
    /\ s.min_playtime # None => ~HoursLt(row.playtime_hours, s.min_playtime)
    /\ s.max_playtime # None => ~HoursGt(row.playtime_hours, s.max_playtime)

Matching(rows, app_id, s) == {row \in rows : MatchesFilters(row, app_id, s)}

\* func.max(Review.review_date) over the matching rows
LatestDate(rows, app_id, s) ==
    LET m == Matching(rows, app_id, s)
    IN IF m = {} THEN None
       ELSE CHOOSE d \in {row.review_date : row \in m} : \A row \in m : row.review_date <= d

\* Filters that test neither the early-access nor the free-copy flag
PassesSaveFilters_NoPolicy(r, s, threshold_start) ==
    LET review_date == utc_from_unix(r.timestamp_created)
        playtime_hours == ToHours(Get(r, "playtime_forever", 0))
    IN /\ ~(threshold_start # None /\ review_date < threshold_start)
       /\ ~(s.end_date # None /\ review_date > s.end_date)
       /\ ~(s.min_playtime # None /\ HoursLt(playtime_hours, s.min_playtime))
       /\ ~(s.max_playtime # None /\ HoursGt(playtime_hours, s.max_playtime))

\* The filters _save_reviews applies to one upstream review before the
\* duplicate check (a review without id or timestamp is skipped first)
PassesSaveFilters(r, s, threshold_start) ==
    LET review_date == utc_from_unix(r.timestamp_created)
        playtime_hours == ToHours(Get(r, "playtime_forever", 0))
        early_access == Get(r, "written_during_early_access", FALSE)
        received_for_free == Get(r, "received_for_free", FALSE)
    IN /\ ~(threshold_start # None /\ review_date < threshold_start)
       /\ ~(s.end_date # None /\ review_date > s.end_date)
       /\ ~(s.min_playtime # None /\ HoursLt(playtime_hours, s.min_playtime))
       /\ ~(s.max_playtime # None /\ HoursGt(playtime_hours, s.max_playtime))
       /\ ~(s.early_access = "exclude" /\ early_access)
       /\ ~(s.early_access = "only" /\ ~early_access)
       /\ ~(s.received_for_free = "exclude" /\ received_for_free)
       /\ ~(s.received_for_free = "only" /\ ~received_for_free)

\* A lookup that never finds the review
Existing_Never(rows, pending, review_id, autoflush) == FALSE

\* db.get(models.Review, review_id) finds a row: a committed one, or, when the
\* session autoflushes before the lookup, one added earlier in this batch
Existing(rows, pending, review_id, autoflush) ==
    \/ \E row \in rows : row.review_id = review_id
    \/ autoflush /\ \E i \in DOMAIN pending : pending[i].review_id = review_id

\* The loop of _save_reviews from review i on: the rows added to the session
\* and the count saved
RECURSIVE SaveLoop(_, _, _, _, _, _, _, _, _)
SaveLoop(rows, app_id, page, s, threshold_start, max_to_save, autoflush, i, acc) ==
    IF i > Len(page) THEN acc
    ELSE IF max_to_save # None /\ acc.saved >= max_to_save THEN acc
    ELSE LET r == page[i]
             skip == \/ "recommendationid" \notin DOMAIN r
                     \/ "timestamp_created" \notin DOMAIN r
                     \/ ~PassesSaveFilters(r, s, threshold_start)
                     \/ Existing(rows, acc.pending, r.recommendationid, autoflush)
         IN SaveLoop(rows, app_id, page, s, threshold_start, max_to_save, autoflush, i + 1,
                     IF skip THEN acc
                     ELSE [pending |-> Append(acc.pending, ReviewRow(r, app_id, s)),
                           saved |-> acc.saved + 1])

\* A commit that never raises IntegrityError
IntegrityError_Never(rows, pending) == FALSE

\* db.commit() raises IntegrityError: two rows of the transaction, or a row of
\* it and a stored row, have the same primary key review_id
IntegrityError(rows, pending) ==
    \/ \E i, j \in DOMAIN pending : i # j /\ pending[i].review_id = pending[j].review_id
    \/ \E i \in DOMAIN pending : \E row \in rows : row.review_id = pending[i].review_id

\* _save_reviews without db.commit(): the count returned, no row stored
save_reviews_NoCommit(rows, app_id, page, s, threshold_start, max_to_save, autoflush) ==
    [saved |-> SaveLoop(rows, app_id, page, s, threshold_start, max_to_save, autoflush, 1,
                        [pending |-> <<>>, saved |-> 0]).saved,
     rows |-> rows]

\* _save_reviews: the count returned and the rows of the table afterwards
\* (on IntegrityError the transaction is rolled back and the count still returned)
save_reviews(rows, app_id, page, s, threshold_start, max_to_save, autoflush) ==
    LET acc == SaveLoop(rows, app_id, page, s, threshold_start, max_to_save, autoflush, 1,
                        [pending |-> <<>>, saved |-> 0])
    IN [saved |-> acc.saved,
        rows |-> IF IntegrityError(rows, acc.pending) THEN rows
                 ELSE rows \cup Range(acc.pending)]

\* ------------------------------------------------------------------ state

VARIABLES
    games,      \* table games: the active titles
    reviews,    \* table reviews
    progress,   \* ScraperService.progress, the Progress snapshot
    tasks,      \* the run tasks start() created, in order; each a frame of _run
    response,   \* outcome of the last start() call
    served,     \* non-empty pages upstream has served so far
    api_keys,   \* table api_keys: the providers a key is stored for
    job,        \* the AnalysisJob row of the analysis job followed
    results,    \* table analysis_results: the rows of that job, by id
    worker,     \* the frame of _run_analysis_job for that job
    batch_workers,  \* the frames of process_batch, one per batch
    adapter,    \* the frame of one OpenAIProvider.analyze_batch call
    mapping     \* one response, what the mapper makes of it, and its result row

\* The state of the ingestion engine and the state of the analysis engine
scraper_vars == <<games, reviews, progress, tasks, response, served>>

analysis_vars == <<api_keys, job, results, worker, batch_workers>>

\* The state of one call of the provider adapter and of the response mapper
provider_vars == <<adapter, mapping>>

vars == <<games, reviews, progress, tasks, response, served,
          api_keys, job, results, worker, batch_workers, adapter, mapping>>

\* No analysis job has been started
NoJob == [status |-> "none", total_reviews |-> 0, processed_count |-> 0,
          started_at |-> FALSE, error |-> ""]

IdleWorker == [pc |-> "none", payload |-> <<>>, batches |-> <<>>]

AnalysisIdle ==
    /\ api_keys = {}
    /\ job = NoJob
    /\ results = <<>>
    /\ worker = IdleWorker
    /\ batch_workers = <<>>

\* No call of the adapter or of the mapper is under way
ProviderIdle ==
    /\ adapter = [pc |-> "none"]
    /\ mapping = [pc |-> "none"]

\* current_game = None
NoGame == [app_id |-> None, name |-> ""]

\* Progress(): the dataclass defaults
NewProgress ==
    [is_running |-> FALSE, current_game |-> NoGame, current_game_scraped |-> 0,
     current_game_total |-> 0, current_game_target |-> 0, global_scraped |-> 0,
     global_total |-> 0, requests_made |-> 0, logs |-> <<>>, stop_requested |-> FALSE]

\* A cut that keeps the new entry and the oldest entries before it
LastLogs_DropsRecent(l) ==
    IF Len(l) > LogCap THEN Append(SubSeq(l, 1, LogCap - 1), l[Len(l)]) ELSE l

\* logs[-100:] when the list has grown past LogCap entries
LastLogs(l) == IF Len(l) > LogCap THEN SubSeq(l, Len(l) - LogCap + 1, Len(l)) ELSE l

\* Progress.log: append, keep the last LogCap entries
Log(p, message) == [p EXCEPT !.logs = LastLogs(Append(@, message))]

\* A frame of _run with the locals of _run and _scrape_game. pc is the await
\* the task is suspended at: "scheduled" (created, not yet run), "http"
\* (client.get), "sleep" (_rate_limit_sleep), "closing" (client.aclose in the
\* finally of _scrape_game), "done". raising: an exception is propagating.
\* The last fields observe the run and are read by no action: pages (the
\* pages received for the current title), pages_saved (how many of them were
\* passed to _save_reviews), exit (why the title's loop ended),
\* requests_after_stop and titles_after_stop (page requests issued and titles
\* started while stop_requested was set), empty_at_start (the table reviews
\* was empty when the run began).
NewTask(payload) ==
    [pc |-> "scheduled", settings_payload |-> payload, active_games |-> <<>>, idx |-> 0,
     settings_for_game |-> make_settings(<<>>), cursor |-> "*", saved_count |-> 0,
     saved_this_batch |-> 0, no_new_found |-> FALSE, threshold_start |-> None,
     remaining_needed |-> None, existing_db_count |-> 0, raising |-> FALSE,
     pages |-> <<>>, pages_saved |-> 0, exit |-> "", requests_after_stop |-> 0,
     titles_after_stop |-> 0, empty_at_start |-> FALSE]

\* A finished task holds nothing that is read again
DoneTask == [NewTask(<<>>) EXCEPT !.pc = "done"]

Live(t) == t \in DOMAIN tasks /\ tasks[t].pc # "done"

\* The stop() calls that took effect in the current run
StopCount == Cardinality({i \in DOMAIN progress.logs : progress.logs[i] = "Stop requested"})

\* The tables a process may find at start-up: reviews are rows an earlier
\* run stored
InitStores ==
    { [games |-> {GameBeta}, reviews |-> {}],
      [games |-> {GameAlpha, GameBeta}, reviews |-> {}],
      [games |-> {GameBeta},
       reviews |-> {ReviewRow(RA, 1, make_settings(<<>>)), ReviewRow(RB, 1, make_settings(<<>>)),
                    ReviewRow(RC, 1, make_settings(<<>>))}] }

Init ==
    /\ \E st \in InitStores : games = st.games /\ reviews = st.reviews
    /\ progress = NewProgress
    /\ tasks = <<>>
    /\ response = "none"
    /\ served = 0
    /\ AnalysisIdle
    /\ ProviderIdle

\* ---------------------------------------------------------- start and stop

\* start() without the is_running test
Start_Unguarded(payload) ==
    /\ UNCHANGED analysis_vars
    /\ UNCHANGED provider_vars
    /\ IF ~PayloadOk(payload)
       THEN /\ response' = "ValueError: Max playtime must be greater than Min playtime"
            /\ UNCHANGED <<games, reviews, progress, tasks, served>>
       ELSE /\ Len(tasks) < MaxRuns
            /\ progress' = Log([NewProgress EXCEPT !.is_running = TRUE], "Starting scraper")
            /\ tasks' = Append(tasks, NewTask(payload))
            /\ response' = "Scraper started"
            /\ UNCHANGED <<games, reviews, served>>

\* ScraperService.start
Start(payload) ==
    /\ UNCHANGED analysis_vars
    /\ UNCHANGED provider_vars
    /\ IF progress.is_running
       THEN /\ response' = "RuntimeError: Scraper already running"
            /\ UNCHANGED <<games, reviews, progress, tasks, served>>
       ELSE IF ~PayloadOk(payload)
       THEN /\ response' = "ValueError: Max playtime must be greater than Min playtime"
            /\ UNCHANGED <<games, reviews, progress, tasks, served>>
       ELSE /\ Len(tasks) < MaxRuns
            /\ progress' = Log([NewProgress EXCEPT !.is_running = TRUE], "Starting scraper")
            /\ tasks' = Append(tasks, NewTask(payload))
            /\ response' = "Scraper started"
            /\ UNCHANGED <<games, reviews, served>>

\* ScraperService.stop
Stop ==
    /\ UNCHANGED analysis_vars
    /\ UNCHANGED provider_vars
    /\ IF progress.is_running
       THEN /\ StopCount < MaxStops
            /\ progress' = Log([progress EXCEPT !.stop_requested = TRUE], "Stop requested")
       ELSE UNCHANGED progress
    /\ UNCHANGED <<games, reviews, tasks, response, served>>

\* ------------------------------------------------------------ the run task

\* A finally block of _run that leaves is_running set
Finish_StillRunning(p) == Log([p EXCEPT !.current_game = NoGame], "Scraper finished")

\* The finally block of _run
Finish(p) == Log([p EXCEPT !.is_running = FALSE, !.current_game = NoGame], "Scraper finished")

\* 1 when the stop flag is set, for the observing counters
Flag(p) == IF p.stop_requested THEN 1 ELSE 0

\* _scrape_game that keeps the resume threshold when no start_date is configured
ScrapePrepare_KeepsThreshold(t, p, tk, game, s) ==
    \E latest \in {LatestDate(reviews, game.app_id, s)},
       existing_db_count \in {Cardinality(Matching(reviews, game.app_id, s))} :
        LET p1 == Log([p EXCEPT !.current_game = game, !.current_game_scraped = 0,
                                !.current_game_total = 0,
                                !.current_game_target = MaxOrZero(s)], "Starting scrape")
            configured_start == s.start_date
            resume == IF latest # None /\ (configured_start = None \/ latest > configured_start)
                      THEN latest ELSE configured_start
            p2 == Log(Log([p1 EXCEPT !.current_game_scraped = existing_db_count,
                                     !.global_scraped = @ + existing_db_count],
                          "Resume check"), "Settings")
            remaining_needed == IF s.complete_scraping THEN None
                                ELSE Max2(0, MaxOrZero(s) - existing_db_count)
            tk1 == [tk EXCEPT !.settings_for_game = s, !.cursor = "*", !.saved_count = 0,
                              !.saved_this_batch = 0, !.no_new_found = FALSE,
                              !.existing_db_count = existing_db_count,
                              !.remaining_needed = remaining_needed,
                              !.threshold_start = resume, !.raising = FALSE,
                              !.pages = <<>>, !.pages_saved = 0, !.exit = "",
                              !.titles_after_stop = @ + Flag(p)]
        IN IF remaining_needed # None /\ remaining_needed <= 0
           THEN /\ progress' = Log(p2, "No new reviews")
                /\ tasks' = [tasks EXCEPT ![t] = [tk1 EXCEPT !.pc = "closing", !.exit = "skip"]]
           ELSE /\ progress' = Log(p2, "Computed remaining_needed")
                /\ tasks' = [tasks EXCEPT ![t] =
                                [tk1 EXCEPT !.pc = "http",
                                            !.requests_after_stop = @ + Flag(p)]]

\* _scrape_game of task t from its start to its first await: the return of a
\* title that needs nothing (then client.aclose), or the first page request.
\* p is the progress and tk the frame the call starts from.
ScrapePrepare(t, p, tk, game, s) ==
    \E latest \in {LatestDate(reviews, game.app_id, s)},
       existing_db_count \in {Cardinality(Matching(reviews, game.app_id, s))} :
        LET p1 == Log([p EXCEPT !.current_game = game, !.current_game_scraped = 0,
                                !.current_game_total = 0,
                                !.current_game_target = MaxOrZero(s)], "Starting scrape")
            configured_start == s.start_date
            resume == IF latest # None /\ (configured_start = None \/ latest > configured_start)
                      THEN latest ELSE configured_start
            p2 == Log(Log([p1 EXCEPT !.current_game_scraped = existing_db_count,
                                     !.global_scraped = @ + existing_db_count],
                          "Resume check"), "Settings")
            remaining_needed == IF s.complete_scraping THEN None
                                ELSE Max2(0, MaxOrZero(s) - existing_db_count)
            tk1 == [tk EXCEPT !.settings_for_game = s, !.cursor = "*", !.saved_count = 0,
                              !.saved_this_batch = 0, !.no_new_found = FALSE,
                              !.existing_db_count = existing_db_count,
                              !.remaining_needed = remaining_needed,
                              !.threshold_start = resume, !.raising = FALSE,
                              !.pages = <<>>, !.pages_saved = 0, !.exit = "",
                              !.titles_after_stop = @ + Flag(p)]
        IN IF remaining_needed # None /\ remaining_needed <= 0
           THEN /\ progress' = Log(p2, "No new reviews")
                /\ tasks' = [tasks EXCEPT ![t] = [tk1 EXCEPT !.pc = "closing", !.exit = "skip"]]
           ELSE /\ progress' = Log(p2, "Computed remaining_needed")
                /\ tasks' = [tasks EXCEPT ![t] =
                                [tk1 EXCEPT !.pc = "http",
                                            !.threshold_start =
                                                IF /\ configured_start = None
                                                   /\ existing_db_count > 0
                                                   /\ (remaining_needed = None \/ remaining_needed > 0)
                                                THEN None ELSE resume,
                                            !.requests_after_stop = @ + Flag(p)]]

\* The loop of _run without the stop_requested test
RunLoop_IgnoresStop(t, p, tk, i) ==
    IF i > Len(tk.active_games)
    THEN /\ progress' = Finish(p)
         /\ tasks' = [tasks EXCEPT ![t] = DoneTask]
    ELSE LET game == tk.active_games[i]
             raw == Merge(tk.settings_payload.global_settings,
                          Get(tk.settings_payload.per_game_overrides, game.app_id, <<>>))
         IN \E s \in {make_settings(raw)} :
                ScrapePrepare(t, p, [tk EXCEPT !.idx = i], game, s)

\* The loop of _run of task t over active_games from game i on, to the task's
\* next await or to its end
RunLoop(t, p, tk, i) ==
    IF i > Len(tk.active_games) \/ p.stop_requested
    THEN /\ progress' = Finish(p)
         /\ tasks' = [tasks EXCEPT ![t] = DoneTask]
    ELSE LET game == tk.active_games[i]
             raw == Merge(tk.settings_payload.global_settings,
                          Get(tk.settings_payload.per_game_overrides, game.app_id, <<>>))
         IN \E s \in {make_settings(raw)} :
                ScrapePrepare(t, p, [tk EXCEPT !.idx = i], game, s)

\* The task starts: _run to its first await
RunBegin(t) ==
    /\ Live(t)
    /\ UNCHANGED analysis_vars
    /\ UNCHANGED provider_vars
    /\ tasks[t].pc = "scheduled"
    /\ \E g_settings \in {make_settings(tasks[t].settings_payload.global_settings)},
          active_games \in {list_games(games)} :
          \E p1 \in {[progress EXCEPT !.global_total = IF g_settings.complete_scraping THEN 0
                                                       ELSE Len(active_games) * MaxOrZero(g_settings),
                                       !.global_scraped = 0]},
             tk \in {[tasks[t] EXCEPT !.active_games = active_games,
                                      !.empty_at_start = (reviews = {})]} :
              RunLoop(t, p1, tk, 1)
    /\ UNCHANGED <<games, reviews, response, served>>

\* max(int(r.get("timestamp_created") or 0) for r in reviews)
RECURSIVE BatchMaxTs(_)
BatchMaxTs(page) ==
    IF page = <<>> THEN 0
    ELSE Max2(Get(Head(page), "timestamp_created", 0), BatchMaxTs(Tail(page)))

\* The early-stop test with a strict comparison
NothingNew_Strict(page, threshold_start) ==
    /\ page # <<>>
    /\ threshold_start # None
    /\ utc_from_unix(BatchMaxTs(page)) < threshold_start

\* The early-stop test on a fetched page
NothingNew(page, threshold_start) ==
    /\ page # <<>>
    /\ threshold_start # None
    /\ utc_from_unix(BatchMaxTs(page)) <= threshold_start

\* The progress totals after the first response of a title (while
\* current_game_total is 0)
Totals(p, s, q_total) ==
    IF p.current_game_total # 0 THEN p
    ELSE LET total == IF q_total > 0
                      THEN (IF s.complete_scraping THEN q_total
                            ELSE Min2(q_total, MaxOrZero(s)))
                      ELSE MaxOrZero(s)
         IN [p EXCEPT !.current_game_total = total,
                      !.global_total = IF @ <= 0 THEN @ + total
                                       ELSE @ - MaxOrZero(s) + total,
                      !.current_game_target = IF s.complete_scraping THEN total ELSE @]

\* The checks after a saved batch without the remaining_needed one
LoopExit_NoCap(p, page, remaining_needed) ==
    IF p.stop_requested THEN "stop"
    ELSE IF page = <<>> THEN "empty"
    ELSE ""

\* The checks after a saved batch that end the title's loop, in the code's order
LoopExit(p, page, remaining_needed) ==
    IF p.stop_requested THEN "stop"
    ELSE IF page = <<>> THEN "empty"
    ELSE IF remaining_needed # None /\ remaining_needed <= 0 THEN "cap"
    ELSE ""

\* _scrape_game of task t from a received response to the next await: the
\* rate-limit sleep, or client.aclose once the loop has ended
ProcessPage(t, p, tk, resp, autoflush) ==
    \E s \in {tk.settings_for_game},
       tk1 \in {[tk EXCEPT !.pages = Append(@, resp.reviews)]} :
    \E p1 \in {Totals([p EXCEPT !.requests_made = @ + 1], s, resp.total_reviews)} :
        IF NothingNew(resp.reviews, tk.threshold_start)
        THEN /\ progress' = Log(Log(p1, "No new reviews"), "Finished: skipped scraping")
             /\ tasks' = [tasks EXCEPT ![t] = [tk1 EXCEPT !.no_new_found = TRUE,
                                                          !.pc = "closing", !.exit = "no_new"]]
             /\ reviews' = reviews
        ELSE \E sv \in {save_reviews(reviews, tk.active_games[tk.idx].app_id, resp.reviews, s,
                                     tk.threshold_start, tk.remaining_needed, autoflush)} :
             \E remaining_needed \in {IF tk.remaining_needed # None
                                      THEN tk.remaining_needed - sv.saved ELSE None},
                p2 \in {Log([p1 EXCEPT !.current_game_scraped = @ + sv.saved,
                                       !.global_scraped = @ + sv.saved], "Fetched")} :
             \E exit \in {LoopExit(p2, resp.reviews, remaining_needed)} :
                 LET tk2 == [tk1 EXCEPT !.saved_count = @ + sv.saved,
                                        !.saved_this_batch = sv.saved,
                                        !.remaining_needed = remaining_needed,
                                        !.pages_saved = @ + 1, !.exit = exit]
                 IN /\ reviews' = sv.rows
                    /\ IF exit = ""
                       THEN /\ progress' = p2
                            /\ tasks' = [tasks EXCEPT ![t] =
                                   [tk2 EXCEPT !.pc = "sleep",
                                               !.cursor = IF resp.cursor # "" THEN resp.cursor ELSE @]]
                       ELSE /\ progress' = Log(IF exit = "stop"
                                               THEN Log(p2, "Stopping scrape after current request")
                                               ELSE p2, "Scrape complete")
                            /\ tasks' = [tasks EXCEPT ![t] = [tk2 EXCEPT !.pc = "closing"]]

\* client.get returns a response with a good status
HttpResponse(t, resp, autoflush) ==
    /\ Live(t)
    /\ UNCHANGED analysis_vars
    /\ UNCHANGED provider_vars
    /\ tasks[t].pc = "http"
    /\ IF resp.reviews = <<>> THEN served' = served
       ELSE served < MaxPages /\ served' = served + 1
    /\ ProcessPage(t, progress, tasks[t], resp, autoflush)
    /\ UNCHANGED <<games, response>>

\* client.get raises, or raise_for_status raises on the response: the
\* exception leaves the loop through the finally of _scrape_game
HttpError(t, err) ==
    /\ Live(t)
    /\ UNCHANGED analysis_vars
    /\ UNCHANGED provider_vars
    /\ tasks[t].pc = "http"
    /\ progress' = IF err = "bad_status" THEN [progress EXCEPT !.requests_made = @ + 1]
                   ELSE progress
    /\ tasks' = [tasks EXCEPT ![t] = [@ EXCEPT !.pc = "closing", !.raising = TRUE,
                                               !.exit = "error"]]
    /\ UNCHANGED <<games, reviews, response, served>>

\* The rate-limit sleep ends: the top of the loop, the next page request
SleepDone(t) ==
    /\ Live(t)
    /\ UNCHANGED analysis_vars
    /\ UNCHANGED provider_vars
    /\ tasks[t].pc = "sleep"
    /\ tasks' = [tasks EXCEPT ![t] = [@ EXCEPT !.pc = "http",
                                               !.requests_after_stop = @ + Flag(progress)]]
    /\ UNCHANGED <<games, reviews, progress, response, served>>

\* A _run whose loop is not in a try with a finally: an exception ends the
\* task and nothing is written
CloseDone_NoFinally(t) ==
    /\ Live(t)
    /\ UNCHANGED analysis_vars
    /\ UNCHANGED provider_vars
    /\ tasks[t].pc = "closing"
    /\ IF tasks[t].raising
       THEN /\ progress' = progress
            /\ tasks' = [tasks EXCEPT ![t] = DoneTask]
       ELSE RunLoop(t, progress, tasks[t], tasks[t].idx + 1)
    /\ UNCHANGED <<games, reviews, response, served>>

\* client.aclose returns: an exception goes on to the finally of _run, a title
\* that ended normally is followed by the next one
CloseDone(t) ==
    /\ Live(t)
    /\ UNCHANGED analysis_vars
    /\ UNCHANGED provider_vars
    /\ tasks[t].pc = "closing"
    /\ IF tasks[t].raising
       THEN /\ progress' = Finish(progress)
            /\ tasks' = [tasks EXCEPT ![t] = DoneTask]
       ELSE RunLoop(t, progress, tasks[t], tasks[t].idx + 1)
    /\ UNCHANGED <<games, reviews, response, served>>

\* A step of run task t
TaskStep(t) ==
    \/ RunBegin(t)
    \/ \E resp \in Pages \cup {EmptyPage}, autoflush \in BOOLEAN : HttpResponse(t, resp, autoflush)
    \/ \E err \in HttpErrors : HttpError(t, err)
    \/ SleepDone(t)
    \/ CloseDone(t)

Next ==
    \/ \E payload \in Payloads : Start(payload)
    \/ Stop
    \/ \E t \in 1..MaxRuns : RunBegin(t)
    \/ \E t \in 1..MaxRuns, resp \in Pages \cup {EmptyPage}, autoflush \in BOOLEAN :
           HttpResponse(t, resp, autoflush)
    \/ \E t \in 1..MaxRuns, err \in HttpErrors : HttpError(t, err)
    \/ \E t \in 1..MaxRuns : SleepDone(t)
    \/ \E t \in 1..MaxRuns : CloseDone(t)

Spec == Init /\ [][Next]_vars

\* The event loop runs every task that is ready, and every await of the run
\* task returns: the request by its timeout at the latest
FairSpec == Spec /\ \A t \in 1..MaxRuns : WF_vars(TaskStep(t))

\* ------------------------------------------------------------------ claims

LiveTasks == {t \in DOMAIN tasks : tasks[t].pc # "done"}

\* Tasks that are inside _scrape_game
InTitle == {t \in DOMAIN tasks : tasks[t].pc \in {"http", "sleep", "closing"}}

\* Task t receives a page in this step
PageStep(t) ==
    /\ t \in InTitle
    /\ t \in DOMAIN tasks'
    /\ Len(tasks'[t].pages) = Len(tasks[t].pages) + 1

LastPage(tk) == tk.pages[Len(tk.pages)]

AlreadyRunning == "RuntimeError: Scraper already running"

BadPlaytime == "ValueError: Max playtime must be greater than Min playtime"

\* C1: at most one run task is alive at any time and is_running tells whether
\* one is; a start() made while is_running is true answers 'Scraper already
\* running', creates no task and leaves Progress as it was, whatever start,
\* stop and the run task did before.
C1_SingleRun ==
    [][ /\ Cardinality(LiveTasks') <= 1
        /\ progress'.is_running = (LiveTasks' # {})
        /\ Len(tasks') > Len(tasks) => ~progress.is_running
        /\ (progress.is_running /\ response' # response) =>
               /\ response' = AlreadyRunning
               /\ progress' = progress
               /\ tasks' = tasks ]_vars

\* a start() was refused while the run task was waiting for a page
C1_Witness ==
    /\ response = AlreadyRunning
    /\ progress.is_running
    /\ \E t \in LiveTasks : tasks[t].pc = "http" /\ progress.requests_made = 0

\* C2: once stop() has set the flag during a run, 'Stop requested' is in the
\* log, is_running becomes false eventually, and no step removes a stored review.
C2_StopEndsRun ==
    /\ [](progress.stop_requested => \E i \in DOMAIN progress.logs : progress.logs[i] = "Stop requested")
    /\ (progress.stop_requested ~> ~progress.is_running)
    /\ [][reviews \subseteq reviews']_vars

\* a run that saved reviews into an empty table was stopped and has ended
C2_Witness ==
    /\ progress.stop_requested
    /\ ~progress.is_running
    /\ Len(tasks) = 1
    /\ GameAlpha \in games
    /\ reviews # {}
    /\ \E i \in DOMAIN progress.logs : progress.logs[i] = "Stopping scrape after current request"

\* C3: a title's loop that ends because of the stop flag has passed every page
\* it received to _save_reviews; while the flag is set a run issues at most one
\* page request and starts no title.
C3_StopAfterSave ==
    \A t \in LiveTasks :
        /\ tasks[t].requests_after_stop <= 1
        /\ tasks[t].titles_after_stop = 0
        /\ tasks[t].exit = "stop" =>
               /\ Len(tasks[t].pages) >= 1
               /\ tasks[t].pages_saved = Len(tasks[t].pages)

\* stop() came during the rate-limit sleep: one more page was requested, saved,
\* and the loop ended
C3_Witness ==
    \E t \in LiveTasks :
        /\ tasks[t].exit = "stop"
        /\ tasks[t].requests_after_stop = 1
        /\ Len(tasks[t].pages) = 2

\* The bounds of a raw settings dict the claim calls invalid
C4_BadBounds(raw) ==
    /\ "min_playtime" \in DOMAIN raw
    /\ "max_playtime" \in DOMAIN raw
    /\ raw.max_playtime <= raw.min_playtime

C4_BadPayload(payload) ==
    \/ C4_BadBounds(payload.global_settings)
    \/ \E k \in DOMAIN payload.per_game_overrides : C4_BadBounds(payload.per_game_overrides[k])

\* C4: no run task ever holds a payload whose global settings or some override
\* set max_playtime <= min_playtime, and a start() answered with the playtime
\* error leaves is_running false, Progress and the tasks as they were.
C4_BadPlaytimeRejected ==
    [][ /\ \A t \in LiveTasks' : ~C4_BadPayload(tasks'[t].settings_payload)
        /\ (response' = BadPlaytime /\ response # BadPlaytime) =>
               /\ ~progress'.is_running
               /\ progress' = progress
               /\ tasks' = tasks ]_vars

\* a start() was refused for its playtime bounds before any run was created
C4_Witness ==
    /\ response = BadPlaytime
    /\ tasks = <<>>
    /\ progress = NewProgress

\* Settings that exclude nothing
C5_NoFilter(s) ==
    /\ s.start_date = None /\ s.end_date = None
    /\ s.early_access = "include" /\ s.received_for_free = "include"
    /\ s.min_playtime = None /\ s.max_playtime = None

\* The reviews of the pages a task received for its title, in order
RECURSIVE Flatten(_)
Flatten(pages) == IF pages = <<>> THEN <<>> ELSE Head(pages) \o Flatten(Tail(pages))

\* The run of task tk started on an empty table with one active title and
\* settings that exclude nothing; upstream served distinct reviews, at most
\* max_reviews of them, and the loop ended on the empty page or on the cap
C5_Scenario(tk) ==
    LET rs == Flatten(tk.pages)
    IN /\ tk.empty_at_start
       /\ Len(tk.active_games) = 1
       /\ C5_NoFilter(tk.settings_for_game)
       /\ tk.exit \in {"empty", "cap"}
       /\ \A i \in DOMAIN rs : {"recommendationid", "timestamp_created"} \subseteq DOMAIN rs[i]
       /\ \A i, j \in DOMAIN rs : i # j => rs[i].recommendationid # rs[j].recommendationid
       /\ tk.settings_for_game.complete_scraping \/ Len(rs) <= tk.settings_for_game.max_reviews

\* C5: when such a run ends, the table holds exactly one row per served review,
\* current_game_scraped is their number and is_running is false.
C5_HappyPath ==
    [][ \A t \in LiveTasks :
            (C5_Scenario(tasks[t]) /\ tasks'[t].pc = "done") =>
                LET rs == Flatten(tasks[t].pages)
                IN /\ {row.review_id : row \in reviews'} = {rs[i].recommendationid : i \in DOMAIN rs}
                   /\ Cardinality(reviews') = Len(rs)
                   /\ progress'.current_game_scraped = Len(rs)
                   /\ ~progress'.is_running ]_vars

\* such a run has received a page of reviews and then the empty page
C5_Witness ==
    \E t \in LiveTasks :
        /\ C5_Scenario(tasks[t])
        /\ tasks[t].pc = "closing"
        /\ Len(tasks[t].pages) = 2
        /\ Flatten(tasks[t].pages) # <<>>
        /\ progress.current_game_scraped = Len(Flatten(tasks[t].pages))

\* The reviews of a page whose review_id is not stored in rows
C6_Fresh(page, rows) ==
    {i \in DOMAIN page : /\ "recommendationid" \in DOMAIN page[i]
                         /\ \A row \in rows : row.review_id # page[i].recommendationid}

\* C6: the table never holds two rows with one review_id; a page passed to
\* _save_reviews leaves every stored row as it was and counts as saved at most
\* the reviews of the page whose review_id was not stored before.
C6_OneRowPerReview ==
    [][ /\ \A r1, r2 \in reviews' : r1.review_id = r2.review_id => r1 = r2
        /\ \A t \in InTitle :
               (PageStep(t) /\ tasks'[t].pages_saved = tasks[t].pages_saved + 1) =>
                   /\ reviews \subseteq reviews'
                   /\ tasks'[t].saved_this_batch <=
                          Cardinality(C6_Fresh(LastPage(tasks'[t]), reviews))
                   /\ tasks'[t].saved_count = tasks[t].saved_count + tasks'[t].saved_this_batch ]_vars

\* a page of an edited copy of a stored review was saved with nothing excluded:
\* the stored row is still there and the copy was not counted
C6_Witness ==
    \E t \in InTitle :
        /\ tasks[t].pages_saved = 1
        /\ C5_NoFilter(tasks[t].settings_for_game)
        /\ LastPage(tasks[t]) = <<RD, RF, RNoTs>>
        /\ tasks[t].saved_this_batch = 1
        /\ \E row \in reviews : row.review_id = "1" /\ row.review_text = "a"

\* C7 (as claimed): within a run global_scraped never decreases, and while a
\* run that is not in complete_scraping mode has global_total > 0,
\* global_scraped <= global_total.
C7_GlobalScrapedBounded ==
    [][ \A t \in DOMAIN tasks :
            (tasks[t].pc \notin {"done"} /\ tasks'[t].pc \notin {"scheduled", "done"}) =>
                /\ tasks[t].pc # "scheduled" => progress'.global_scraped >= progress.global_scraped
                /\ ( /\ ~make_settings(tasks'[t].settings_payload.global_settings).complete_scraping
                     /\ ~tasks'[t].settings_for_game.complete_scraping
                     /\ progress'.global_total > 0 )
                   => progress'.global_scraped <= progress'.global_total ]_vars

\* The newest timestamp_created of a page
C8_Newest(page) ==
    CHOOSE m \in {Get(page[i], "timestamp_created", 0) : i \in DOMAIN page} :
        \A i \in DOMAIN page : Get(page[i], "timestamp_created", 0) <= m

\* C8: a received non-empty page whose newest timestamp_created is at or before
\* the threshold ends the title's loop in that step: the table is unchanged,
\* nothing is counted as saved, and the task goes on to the next title or ends
\* without another request for this one.
C8_EarlyStop ==
    [][ \A t \in InTitle :
            /\ ( /\ PageStep(t)
                 /\ LastPage(tasks'[t]) # <<>>
                 /\ tasks[t].threshold_start # None
                 /\ C8_Newest(LastPage(tasks'[t])) <= tasks[t].threshold_start )
               => /\ reviews' = reviews
                  /\ tasks'[t].pc = "closing"
                  /\ tasks'[t].no_new_found
                  /\ tasks'[t].saved_count = tasks[t].saved_count
                  /\ progress'.global_scraped = progress.global_scraped
            /\ (tasks[t].pc = "closing" /\ tasks'[t].pc # "closing")
               => (tasks'[t].pc = "done" \/ tasks'[t].idx = tasks[t].idx + 1) ]_vars

\* a page whose newest review is exactly as old as the threshold ended a title
C8_Witness ==
    \E t \in InTitle :
        /\ tasks[t].no_new_found
        /\ tasks[t].pc = "closing"
        /\ C8_Newest(LastPage(tasks[t])) = tasks[t].threshold_start

\* C9: in a title that is not in complete mode remaining_needed is never
\* negative, the count saved in the run is at most max_reviews minus the
\* stored matching reviews (at most 0 when more are stored than asked for); a
\* title that starts with remaining_needed 0 is left without a page request,
\* and with remaining_needed 0 no request is in flight and none will follow.
C9_RemainingNeeded ==
    \A t \in InTitle :
        LET tk == tasks[t]
        IN ~tk.settings_for_game.complete_scraping =>
               /\ tk.remaining_needed >= 0
               /\ tk.saved_count + tk.remaining_needed =
                      Max2(0, tk.settings_for_game.max_reviews - tk.existing_db_count)
               /\ tk.remaining_needed = 0 => tk.pc = "closing"
               /\ tk.existing_db_count >= tk.settings_for_game.max_reviews =>
                      tk.pages = <<>> /\ tk.pc = "closing"

\* C9 (as claimed): in a title that is not in complete mode the count saved in
\* the run is at most max_reviews minus the stored matching reviews.
C9_SavedWithinDifference ==
    \A t \in InTitle :
        ~tasks[t].settings_for_game.complete_scraping =>
            tasks[t].saved_count <=
                tasks[t].settings_for_game.max_reviews - tasks[t].existing_db_count

\* a page filled the cap: remaining_needed reached 0 and the loop ended
C9_Witness ==
    \E t \in InTitle :
        /\ ~tasks[t].settings_for_game.complete_scraping
        /\ tasks[t].remaining_needed = 0
        /\ tasks[t].saved_count > 0
        /\ tasks[t].exit = "cap"

\* C10 (as claimed): every row the engine adds has the language configured for
\* the title it was fetched for, compared case-insensitively.
C10_LanguageFiltered ==
    [][ \A row \in reviews' \ reviews :
            \E t \in InTitle : Lower(row.language) = Lower(tasks[t].settings_for_game.language) ]_vars

\* The raw settings of the title task tk is scraping: the global settings
\* overlaid with the title's override
TitleRaw(tk) ==
    Merge(tk.settings_payload.global_settings,
          Get(tk.settings_payload.per_game_overrides, tk.active_games[tk.idx].app_id, <<>>))

\* A stored row breaks the early-access policy, the free-copy policy or the
\* end_date of the raw settings (end_date is a day; the day ends DayLen later)
C11_Violates(row, raw) ==
    \/ Get(raw, "early_access", "include") = "exclude" /\ row.early_access
    \/ Get(raw, "early_access", "include") = "only" /\ ~row.early_access
    \/ Get(raw, "received_for_free", "include") = "exclude" /\ row.received_for_free
    \/ Get(raw, "received_for_free", "include") = "only" /\ ~row.received_for_free
    \/ "end_date" \in DOMAIN raw /\ row.review_date >= (raw.end_date + 1) * DayLen

\* An upstream review passes every filter of the raw settings and the threshold
C11_PassesAll(r, raw, threshold_start) ==
    /\ {"recommendationid", "timestamp_created"} \subseteq DOMAIN r
    /\ Get(raw, "early_access", "include") = "exclude" => ~Get(r, "written_during_early_access", FALSE)
    /\ Get(raw, "early_access", "include") = "only" => Get(r, "written_during_early_access", FALSE)
    /\ Get(raw, "received_for_free", "include") = "exclude" => ~Get(r, "received_for_free", FALSE)
    /\ Get(raw, "received_for_free", "include") = "only" => Get(r, "received_for_free", FALSE)
    /\ "end_date" \in DOMAIN raw => r.timestamp_created < (raw.end_date + 1) * DayLen
    /\ threshold_start # None => r.timestamp_created >= threshold_start
    /\ "min_playtime" \in DOMAIN raw =>
           Get(r, "playtime_forever", 0) >= raw.min_playtime * MinutesPerHour
    /\ "max_playtime" \in DOMAIN raw =>
           Get(r, "playtime_forever", 0) <= raw.max_playtime * MinutesPerHour

\* The reviews of a page that pass every filter and are not stored in rows
C11_Due(page, raw, threshold_start, rows) ==
    {i \in DOMAIN page : /\ C11_PassesAll(page[i], raw, threshold_start)
                         /\ \A row \in rows : row.review_id # page[i].recommendationid}

C12_WithoutPlaytime(raw) ==
    [k \in DOMAIN raw \ {"min_playtime", "max_playtime"} |-> raw[k]]

\* min_playtime <= playtime_forever / 60 <= max_playtime, for the bounds set
C12_InBounds(minutes, raw) ==
    /\ "min_playtime" \in DOMAIN raw => raw.min_playtime * MinutesPerHour <= minutes
    /\ "max_playtime" \in DOMAIN raw => minutes <= raw.max_playtime * MinutesPerHour

\* C12: with playtime bounds set, among the reviews of a saved page that pass
\* the other filters, are distinct, not yet stored and within the cap, a
\* review is stored if and only if min_playtime <= playtime_hours <=
\* max_playtime, and the stored row has that playtime_hours.
C12_PlaytimeInclusive ==
    [][ \A t \in InTitle :
            ( /\ PageStep(t)
              /\ tasks'[t].pages_saved = tasks[t].pages_saved + 1
              /\ {"min_playtime", "max_playtime"} \cap DOMAIN TitleRaw(tasks[t]) # {} ) =>
                LET raw == TitleRaw(tasks[t])
                    page == LastPage(tasks'[t])
                    cand == C11_Due(page, C12_WithoutPlaytime(raw), tasks[t].threshold_start, reviews)
                IN /\ \A row \in reviews' \ reviews :
                          /\ row.playtime_hours.den = MinutesPerHour
                          /\ C12_InBounds(row.playtime_hours.num, raw)
                   /\ ( /\ \A i, j \in cand : i # j =>
                               page[i].recommendationid # page[j].recommendationid
                        /\ tasks[t].remaining_needed # None =>
                               Cardinality(cand) <= tasks[t].remaining_needed )
                      => \A i \in cand :
                             (\E row \in reviews' \ reviews :
                                  /\ row.review_id = page[i].recommendationid
                                  /\ row.playtime_hours.num = Get(page[i], "playtime_forever", 0))
                             <=> C12_InBounds(Get(page[i], "playtime_forever", 0), raw) ]_vars

\* with bounds 1 and 2 hours a review of 60 minutes and one of 120 minutes,
\* both on a bound, were stored from one page
C12_Witness ==
    \E t \in InTitle :
        /\ Get(TitleRaw(tasks[t]), "min_playtime", None) = 1
        /\ Get(TitleRaw(tasks[t]), "max_playtime", None) = 2
        /\ tasks[t].pages = << <<RA, RB>> >>
        /\ tasks[t].saved_count = 2
        /\ \E row \in reviews : row.review_id = "1" /\ row.playtime_hours.num = 2 * MinutesPerHour
        /\ \E row \in reviews : row.review_id = "2" /\ row.playtime_hours.num = 1 * MinutesPerHour

\* Task t enters _scrape_game for a title in this step
TitleStart(t) ==
    /\ t \in DOMAIN tasks
    /\ tasks'[t].pc \in {"http", "closing"}
    /\ \/ tasks[t].pc = "scheduled"
       \/ tasks[t].pc = "closing" /\ tasks'[t].idx = tasks[t].idx + 1

\* The later of two dates, either of which may be None
C13_Later(a, b) == IF a = None THEN b ELSE IF b = None THEN a ELSE Max2(a, b)

\* The newest review_date of a set of rows, None when there is none
C13_Newest(rows) ==
    IF rows = {} THEN None
    ELSE CHOOSE d \in {row.review_date : row \in rows} : \A row \in rows : row.review_date <= d

\* C13: when a title starts, threshold_start is the later of the configured
\* start_date and the newest stored review_date matching the title's filters,
\* but None when no start_date is configured and the stored matching reviews
\* are fewer than the cap (always so without a cap); with no start_date and
\* the cap not filled every page received is passed to _save_reviews, and its
\* reviews that pass the filters, are distinct, not stored and within the cap
\* are stored however old they are.
C13_ThresholdStart ==
    [][ \A t \in DOMAIN tasks :
            /\ TitleStart(t) =>
                   LET s == tasks'[t].settings_for_game
                       m == Matching(reviews, tasks'[t].active_games[tasks'[t].idx].app_id, s)
                       cleared == /\ s.start_date = None
                                  /\ (s.complete_scraping \/ Cardinality(m) < s.max_reviews)
                   IN tasks'[t].threshold_start =
                          IF cleared THEN None ELSE C13_Later(s.start_date, C13_Newest(m))
            /\ (t \in InTitle /\ PageStep(t) /\ tasks[t].settings_for_game.start_date = None) =>
                   LET page == LastPage(tasks'[t])
                       due == C11_Due(page, TitleRaw(tasks[t]), None, reviews)
                   IN /\ tasks'[t].pages_saved = tasks[t].pages_saved + 1
                      /\ ( /\ \A i, j \in due : i # j =>
                                  page[i].recommendationid # page[j].recommendationid
                           /\ tasks[t].remaining_needed # None =>
                                  Cardinality(due) <= tasks[t].remaining_needed )
                         => \A i \in due : \E row \in reviews' \ reviews :
                                row.review_id = page[i].recommendationid ]_vars

\* two matching reviews were stored, the newest of second 2, the cap is 3 and
\* no start_date is set: the review of second 0 of the next page was stored
C13_Witness ==
    \E t \in InTitle :
        /\ tasks[t].settings_for_game.start_date = None
        /\ tasks[t].settings_for_game.max_reviews = 3
        /\ tasks[t].existing_db_count = 2
        /\ tasks[t].threshold_start = None
        /\ tasks[t].pages = << <<RD, RF, RNoTs>> >>
        /\ tasks[t].saved_count = 1
        /\ \E row \in reviews : row.review_id = "2" /\ row.review_date = 2
        /\ \E row \in reviews : row.review_id = "5" /\ row.review_date = 0

\* C14 (as claimed): when the page request of a title fails and the run has
\* titles left and has not been stopped, the run goes on to the next title.
C14_OtherTitlesContinue ==
    [][ \A t \in InTitle :
            ( /\ tasks[t].pc = "closing"
              /\ tasks[t].exit = "error"
              /\ tasks'[t] # tasks[t]
              /\ tasks[t].idx < Len(tasks[t].active_games)
              /\ ~progress.stop_requested )
            => /\ tasks'[t].pc \in {"http", "closing"}
               /\ tasks'[t].idx = tasks[t].idx + 1
               /\ progress'.is_running ]_vars

\* C15: a saved page either commits one row per review counted, or (the commit
\* raised an integrity violation) stores no row at all and still returns the
\* count of the reviews it had added to the transaction; in both cases no
\* exception reaches the loop, which goes on to the rate-limit sleep and the
\* next page unless the stop flag or the cap ends it.
C15_RollbackContinues ==
    [][ \A t \in InTitle :
            (PageStep(t) /\ tasks'[t].pages_saved = tasks[t].pages_saved + 1) =>
                LET added == reviews' \ reviews
                    page == LastPage(tasks'[t])
                    due == C11_Due(page, TitleRaw(tasks[t]), tasks[t].threshold_start, reviews)
                    counted == IF tasks[t].remaining_needed = None THEN Cardinality(due)
                               ELSE Min2(Cardinality(due), tasks[t].remaining_needed)
                IN /\ \/ Cardinality(added) = tasks'[t].saved_this_batch
                      \/ added = {} /\ tasks'[t].saved_this_batch = counted
                   /\ reviews \subseteq reviews'
                   /\ ~tasks'[t].raising
                   /\ tasks'[t].exit \in {"", "stop", "empty", "cap"}
                   /\ tasks'[t].exit = "" <=> tasks'[t].pc = "sleep"
                   /\ ( /\ ~progress.stop_requested
                        /\ page # <<>>
                        /\ tasks'[t].remaining_needed = None \/ tasks'[t].remaining_needed > 0 )
                      => tasks'[t].pc = "sleep" ]_vars

\* a page that holds one new review twice was saved into an empty table: the
\* commit failed, nothing is stored, 2 were counted and the loop goes on
C15_Witness ==
    \E t \in InTitle :
        /\ tasks[t].pages = << <<RB, RNoId, RB>> >>
        /\ tasks[t].pages_saved = 1
        /\ tasks[t].saved_this_batch = 2
        /\ reviews = {}
        /\ tasks[t].pc = "sleep"
        /\ progress.is_running

\* The rows of the scrape-cursor table. _scrape_game keeps the cursor of the
\* next request in a local variable only: its page tail writes no row (the
\* statement that did is gone), and no other statement of the engine does
ScrapeCursors == {}

\* C16: after a page on which at least one new review was saved, a cursor row
\* is stored for the title that holds the cursor token of that page. The
\* engine stores none, so the first page that saves a review refutes it.
C16_CursorStored ==
    [][\A t \in InTitle :
          (PageStep(t) /\ tasks'[t].saved_this_batch >= 1)
          => \E c \in ScrapeCursors :
                /\ c.app_id = tasks[t].active_games[tasks[t].idx].app_id
                /\ \E p \in Pages : /\ p.reviews = LastPage(tasks'[t])
                                    /\ c.cursor = p.cursor]_vars

\* ------------------------------------------------------- provider responses

\* f(e), with e evaluated once
With(e, f(_)) == CHOOSE y \in {f(x) : x \in {e}} : TRUE

\* Python values as a mapper meets them: None, int, str, dict and list. A
\* dict is the sequence of its (key, value) items in insertion order
PyNone == [t |-> "None"]

PyInt(n) == [t |-> "int", n |-> n]

PyStr(s) == [t |-> "str", s |-> s]

PyDict(items) == [t |-> "dict", d |-> items]

PyList(l) == [t |-> "list", l |-> l]

\* The text of a str, piece by piece: text without a brace, a lone "{" that
\* opens nothing, the JSON text of a value (as json.dumps writes it, or
\* compact as an API body), or the Python literal of a value (single quotes)
Text(name) == [seg |-> "text", name |-> name]

Brace == [seg |-> "brace"]

Json(v, fmt) == [seg |-> "json", v |-> v, fmt |-> fmt]

Py(v) == [seg |-> "py", v |-> v]

\* The result of a parse that raised
Raised == [t |-> "raised"]

\* json.loads(s): s is the JSON text of one value and nothing else
json_loads(s) ==
    IF Len(s) = 1 /\ s[1].seg = "json" THEN s[1].v ELSE Raised

\* ast.literal_eval(s): s is the Python literal of one value and nothing else
literal_eval(s) ==
    IF Len(s) = 1 /\ s[1].seg = "py" THEN s[1].v ELSE Raised

\* json.dumps(v)
json_dumps(v) == <<Json(v, "dumps")>>

\* s.find("{", start): the pieces of s from position start on that begin with
\* "{". The braces inside the text of a value are left out: a candidate that
\* starts at one of them ends with the closing brace of the value around it,
\* and no parse accepts it
IsOpen(piece) ==
    \/ piece.seg = "brace"
    \/ piece.seg \in {"json", "py"} /\ piece.v.t = "dict"

\* The first while loop of openai_mapper: the first candidate s[start:], start
\* at a "{", that json.loads accepts, or None
RECURSIVE scan_json(_, _)
scan_json(s, start) ==
    IF start > Len(s) THEN PyNone
    ELSE IF IsOpen(s[start]) /\ json_loads(SubSeq(s, start, Len(s))) # Raised
         THEN json_loads(SubSeq(s, start, Len(s)))
         ELSE scan_json(s, start + 1)

\* The second while loop: the same with ast.literal_eval
RECURSIVE scan_literal(_, _)
scan_literal(s, start) ==
    IF start > Len(s) THEN PyNone
    ELSE IF IsOpen(s[start]) /\ literal_eval(SubSeq(s, start, Len(s))) # Raised
         THEN literal_eval(SubSeq(s, start, Len(s)))
         ELSE scan_literal(s, start + 1)

\* obj.get(key)
dict_get(obj, key) ==
    IF \E i \in DOMAIN obj.d : obj.d[i][1] = key
    THEN obj.d[CHOOSE i \in DOMAIN obj.d : obj.d[i][1] = key][2]
    ELSE PyNone

\* Python truth of a value
Truthy(v) ==
    CASE v.t = "None" -> FALSE
      [] v.t = "int" -> v.n # 0
      [] v.t = "str" -> v.s # <<>>
      [] v.t = "dict" -> v.d # <<>>
      [] v.t = "list" -> v.l # <<>>
      [] OTHER -> TRUE

\* a or b
Or(a, b) == IF Truthy(a) THEN a ELSE b

\* find_key: the value of the first key of that name, the dict itself first,
\* then its values and the items of lists in order
RECURSIVE find_key(_, _)
RECURSIVE find_key_in(_, _)
find_key(obj, key) ==
    IF obj.t = "dict"
    THEN IF \E i \in DOMAIN obj.d : obj.d[i][1] = key
         THEN dict_get(obj, key)
         ELSE With([i \in DOMAIN obj.d |-> obj.d[i][2]], LAMBDA vs : find_key_in(vs, key))
    ELSE IF obj.t = "list" THEN With(obj.l, LAMBDA vs : find_key_in(vs, key))
    ELSE PyNone

find_key_in(values, key) ==
    IF values = <<>> THEN PyNone
    ELSE With(With(Head(values), LAMBDA h : find_key(h, key)),
              LAMBDA res : IF res # PyNone THEN res
                           ELSE With(Tail(values), LAMBDA rest : find_key_in(rest, key)))

\* Lines 14-46 of openai_mapper: what a str response is parsed to
ParseResponse(resp) ==
    IF json_loads(resp.s) # Raised THEN json_loads(resp.s)
    ELSE IF scan_json(resp.s, 1) # PyNone THEN scan_json(resp.s, 1)
    ELSE IF literal_eval(resp.s) # Raised
         THEN (IF literal_eval(resp.s) = PyNone THEN resp
               ELSE literal_eval(resp.s))
    ELSE IF scan_literal(resp.s, 1) # PyNone
         THEN scan_literal(resp.s, 1)
    ELSE resp

\* Lines 70-86 of openai_mapper: the fields found in usage and choices
FieldsOf(usage, choices) ==
    LET has_usage == Truthy(usage) /\ usage.t = "dict"
        first == IF Truthy(choices) /\ choices.t = "list" THEN choices.l[1] ELSE PyNone
        msg == IF first.t = "dict"
               THEN Or(dict_get(first, "message"), dict_get(first, "msg"))
               ELSE PyNone
    IN [analysed_review |->
            IF first.t # "dict" THEN PyNone
            ELSE IF msg.t = "dict"
                 THEN Or(dict_get(msg, "content"), dict_get(msg, "text"))
                 ELSE Or(dict_get(first, "text"), dict_get(first, "content")),
        input_tokens |-> IF has_usage THEN dict_get(usage, "prompt_tokens") ELSE PyNone,
        output_tokens |-> IF has_usage
                          THEN Or(dict_get(usage, "completion_tokens"),
                                  dict_get(usage, "output_tokens"))
                          ELSE PyNone,
        total_tokens |-> IF has_usage THEN dict_get(usage, "total_tokens") ELSE PyNone]

\* find_key(parsed, "usage") and find_key(parsed, "choices"), then the fields
ExtractFields(parsed) ==
    With(find_key(parsed, "usage"),
         LAMBDA usage : With(find_key(parsed, "choices"),
                             LAMBDA choices : FieldsOf(usage, choices)))

NoFields ==
    [analysed_review |-> PyNone, input_tokens |-> PyNone, output_tokens |-> PyNone,
     total_tokens |-> PyNone]

\* Lines 48-100 of openai_mapper, from the parsed response on
MapParsed(parsed) ==
    With(IF parsed.t = "dict" THEN ExtractFields(parsed) ELSE NoFields,
         LAMBDA fields :
            [analysed_review |-> fields.analysed_review,
             input_tokens |-> fields.input_tokens,
             output_tokens |-> fields.output_tokens,
             total_tokens |-> fields.total_tokens,
             analysis_output |-> IF parsed.t = "str" THEN parsed
                                 ELSE PyStr(json_dumps(parsed))])

\* openai_mapper(response): the five canonical fields, analysis_output a str
openai_mapper(resp) ==
    With(IF resp.t = "str" THEN ParseResponse(resp) ELSE resp,
         LAMBDA parsed : MapParsed(parsed))

\* get_mapper_for_name: does a provider of that name have a mapper (the
\* provider names of the model are in lower case)
get_mapper_for_name(provider_name) == provider_name = "openai"

\* ----------------------------------------------------- the provider adapter

\* The polls of the batch status the model follows before the deadline
MaxPolls == 2

\* The inputs of one analyze_batch call, by number
AdapterInputs == {<<>>, <<1>>, <<1, 2>>}

\* The status values GET /v1/batches/{id} answers with
PollStatuses == {"validating", "in_progress", "completed", "failed", "cancelled"}

\* The lines of an output file: the JSON line that answers input i, a blank
\* line, a line that is not JSON
Line(i) == [kind |-> "line", input |-> i]

Blank == [kind |-> "blank", input |-> 0]

Garbage == [kind |-> "garbage", input |-> 0]

Reverse(s) == [k \in DOMAIN s |-> s[Len(s) + 1 - k]]

\* The output files upstream may serve for the inputs: one line per request
\* in the order of the requests or in another order, a line missing, a line
\* too many, a blank line, a line that is not JSON
Contents(inputs) ==
    LET in_order == [k \in DOMAIN inputs |-> Line(inputs[k])]
    IN {in_order, Reverse(in_order), <<Blank>> \o in_order, in_order \o <<Garbage>>}
       \cup (IF inputs = <<>> THEN {}
             ELSE {Tail(in_order), in_order \o <<Line(inputs[1])>>})

\* Lines 99-110 of analyze_batch: one result per line that is not blank, in
\* the order of the file; a line that does not parse becomes {"raw": line}
RECURSIVE ParseLines(_)
ParseLines(content) ==
    IF content = <<>> THEN <<>>
    ELSE IF Head(content).kind = "blank" THEN ParseLines(Tail(content))
    ELSE IF Head(content).kind = "garbage"
         THEN <<[kind |-> "raw", input |-> 0]>> \o ParseLines(Tail(content))
    ELSE <<Head(content)>> \o ParseLines(Tail(content))

\* The positional parameters of analyze_batch after self: inputs, prompt,
\* model, reasoning, completion_window
AnalyzeBatchParams == 5

\* The positional arguments process_batch passes to provider.analyze_batch:
\* inputs, prompt, model, reasoning, "24h", progress_cb
ProcessBatchArgs == 6

\* A call of analyze_batch with that many positional arguments, before the
\* body of the method runs
NewAdapter(inputs, args) ==
    [pc |-> "called", args |-> args, inputs |-> inputs, calls |-> <<>>, status |-> "",
     output_file_id |-> FALSE, polls |-> 0, fallback |-> "", result |-> <<>>]

Request(a, req, input) == Append(a.calls, [req |-> req, input |-> input])

\* The fallback without its analyze_single calls
Fallback_NoCalls(a, site) ==
    [a EXCEPT !.pc = "returned", !.fallback = site]

\* return [self.analyze_single(...) for inp in inputs], at one of the six
\* places of analyze_batch that have this statement
Fallback(a, site) ==
    [a EXCEPT !.pc = IF a.inputs = <<>> THEN "returned" ELSE "single", !.fallback = site]

\* Lines 85-92: the batch as last seen decides between download and fallback
AfterPoll(a) ==
    IF a.status # "completed" THEN Fallback(a, "status")
    ELSE IF ~a.output_file_id THEN Fallback(a, "output_file_id")
    ELSE [a EXCEPT !.pc = "download"]

\* The call binds its arguments: with more positional arguments than the
\* method has parameters it raises TypeError before the body runs; otherwise
\* the JSONL of the inputs is built and is about to be uploaded
Call ==
    /\ adapter.pc = "called"
    /\ adapter' = [adapter EXCEPT !.pc = IF adapter.args > AnalyzeBatchParams
                                         THEN "type_error" ELSE "upload"]
    /\ UNCHANGED <<mapping>>
    /\ UNCHANGED scraper_vars
    /\ UNCHANGED analysis_vars

\* POST /v1/files answers: not ok, or ok with or without a file id
Upload(ok, file_id) ==
    /\ adapter.pc = "upload"
    /\ \E a \in {[adapter EXCEPT !.calls = Request(adapter, "upload", 0)]} :
          adapter' = IF ~ok THEN Fallback(a, "upload")
                     ELSE IF ~file_id THEN Fallback(a, "file_id")
                     ELSE [a EXCEPT !.pc = "create"]
    /\ UNCHANGED <<mapping>>
    /\ UNCHANGED scraper_vars
    /\ UNCHANGED analysis_vars

\* POST /v1/batches answers: not ok, or ok with the new batch, which is being
\* validated and has no output file
CreateBatch(ok) ==
    /\ adapter.pc = "create"
    /\ \E a \in {[adapter EXCEPT !.calls = Request(adapter, "create", 0)]} :
          adapter' = IF ~ok THEN Fallback(a, "create")
                     ELSE [a EXCEPT !.pc = "poll", !.status = "validating",
                                    !.output_file_id = FALSE]
    /\ UNCHANGED <<mapping>>
    /\ UNCHANGED scraper_vars
    /\ UNCHANGED analysis_vars

\* One round of the poll loop: GET /v1/batches/{id} answers not ok and the
\* loop breaks with the batch as last seen, or it answers with a batch, and a
\* status of completed, failed or cancelled breaks the loop
Poll(ok, status, output_file_id) ==
    /\ adapter.pc = "poll"
    /\ adapter.polls < MaxPolls
    /\ \E a \in {[adapter EXCEPT !.calls = Request(adapter, "poll", 0), !.polls = @ + 1]} :
          adapter' =
             IF ~ok THEN AfterPoll(a)
             ELSE LET seen == [a EXCEPT !.status = status, !.output_file_id = output_file_id]
                  IN IF status \in {"completed", "failed", "cancelled"}
                     THEN AfterPoll(seen) ELSE seen
    /\ UNCHANGED <<mapping>>
    /\ UNCHANGED scraper_vars
    /\ UNCHANGED analysis_vars

\* A poll loop whose condition never sees the deadline
Deadline_Never ==
    /\ adapter.pc = "poll"
    /\ FALSE
    /\ UNCHANGED vars

\* The deadline of the poll loop has passed when the loop tests it: after
\* MaxPolls rounds of sleeping, or after fewer rounds whose requests took
\* long. Before the first round it has not, the deadline was just set
Deadline ==
    /\ adapter.pc = "poll"
    /\ adapter.polls >= 1
    /\ adapter' = AfterPoll(adapter)
    /\ UNCHANGED <<mapping>>
    /\ UNCHANGED scraper_vars
    /\ UNCHANGED analysis_vars

\* GET /v1/files/{id}/content answers: not ok, or ok with the output file
Download(ok, content) ==
    /\ adapter.pc = "download"
    /\ content \in Contents(adapter.inputs)
    /\ \E a \in {[adapter EXCEPT !.calls = Request(adapter, "download", 0)]} :
          adapter' = IF ~ok THEN Fallback(a, "download")
                     ELSE [a EXCEPT !.pc = "returned", !.result = ParseLines(content)]
    /\ UNCHANGED <<mapping>>
    /\ UNCHANGED scraper_vars
    /\ UNCHANGED analysis_vars

\* analyze_single for the next input of the fallback: the JSON body of the
\* answer, or {"error": str(e)} when the request or the decoding raised
Single(raised) ==
    /\ adapter.pc = "single"
    /\ \E i \in {Len(adapter.result) + 1} :
          adapter' = [adapter EXCEPT
                         !.calls = Request(adapter, "single", adapter.inputs[i]),
                         !.result = Append(@, [kind |-> IF raised THEN "error" ELSE "single",
                                               input |-> adapter.inputs[i]]),
                         !.pc = IF i = Len(adapter.inputs) THEN "returned" ELSE "single"]
    /\ UNCHANGED <<mapping>>
    /\ UNCHANGED scraper_vars
    /\ UNCHANGED analysis_vars

\* A request of analyze_batch itself raises (no connection), or the body of
\* an ok answer is not JSON: the exception leaves analyze_batch
RequestRaises ==
    /\ adapter.pc \in {"upload", "create", "poll", "download"}
    /\ adapter' = [adapter EXCEPT !.calls = Request(adapter, adapter.pc, 0),
                                  !.pc = "raised"]
    /\ UNCHANGED <<mapping>>
    /\ UNCHANGED scraper_vars
    /\ UNCHANGED analysis_vars

\* ------------------------------------------------ responses and result rows

Str(name) == PyStr(<<Text(name)>>)

\* The body of a chat completion: choices[0].message.content and usage
ChatBody ==
    PyDict(<< <<"choices", PyList(<<PyDict(<< <<"message",
                  PyDict(<< <<"role", Str("assistant")>>, <<"content", Str("OK")>> >>)>> >>)>>)>>,
              <<"usage", PyDict(<< <<"prompt_tokens", PyInt(3)>>,
                                   <<"completion_tokens", PyInt(4)>>,
                                   <<"total_tokens", PyInt(7)>> >>)>> >>)

\* The body of a text completion that counts output_tokens
TextBody ==
    PyDict(<< <<"choices", PyList(<<PyDict(<< <<"text", Str("OK")>> >>)>>)>>,
              <<"usage", PyDict(<< <<"prompt_tokens", PyInt(3)>>,
                                   <<"output_tokens", PyInt(4)>>,
                                   <<"total_tokens", PyInt(7)>> >>)>> >>)

\* The body of an error answer
ErrorBody == PyDict(<< <<"error", PyDict(<< <<"message", Str("rate limit")>> >>)>> >>)

\* A line of a batch output file: the body is under response.body
BatchLine ==
    PyDict(<< <<"custom_id", Str("request-1")>>,
              <<"response", PyDict(<< <<"status_code", PyInt(200)>>,
                                      <<"body", ChatBody>> >>)>> >>)

\* {"raw": line} and {"error": str(e)}, as the adapter returns them
RawLine == PyDict(<< <<"raw", Str("not json")>> >>)

SingleError == PyDict(<< <<"error", Str("connection refused")>> >>)

\* The responses a mapper is given: parsed objects, and strings that hold
\* JSON or a Python literal alone, after text, before text, between text,
\* inside a JSON string, after a lone brace, or no object at all
Responses ==
    { ChatBody, TextBody, ErrorBody, BatchLine, RawLine, SingleError,
      PyStr(<<Json(ChatBody, "compact")>>),
      PyStr(<<Json(ChatBody, "dumps")>>),
      PyStr(<<Text("Result:"), Json(ChatBody, "compact")>>),
      PyStr(<<Json(ChatBody, "compact"), Text("done")>>),
      PyStr(<<Text("Result:"), Json(ChatBody, "compact"), Text("done")>>),
      PyStr(<<Brace, Text("Result:"), Json(ChatBody, "compact")>>),
      PyStr(<<Py(ChatBody)>>),
      PyStr(<<Text("Result:"), Py(TextBody)>>),
      PyStr(<<Text("Result:"), Json(ErrorBody, "compact")>>),
      PyStr(<<Json(PyStr(<<Json(ChatBody, "compact")>>), "compact")>>),
      PyStr(<<Text("no object here")>>) }

\* What the mapper is run on in the model: the responses, and the
\* analysis_output it made of them
MapperInputs == Responses \cup {openai_mapper(x).analysis_output : x \in Responses}

\* openai_mapper on each of them
MapperResults == [x \in MapperInputs |-> openai_mapper(x)]

\* openai_mapper(resp), looked up where resp is one of these
Mapped(resp) == IF resp \in MapperInputs THEN MapperResults[resp] ELSE openai_mapper(resp)

\* crud.create_analysis_result: the row of a new result
create_analysis_result(id, review_id, provider_name) ==
    [id |-> id, review_id |-> review_id, status |-> "pending", status_writes |-> 0,
     game_name |-> "", llm_provider |-> provider_name, completed_at |-> FALSE,
     analysis_output |-> PyNone, analysed_review |-> PyNone, input_tokens |-> PyNone,
     output_tokens |-> PyNone, total_tokens |-> PyNone]

\* The assignments both update_analysis_result_output and the backfill make
\* from what the mapper returns: a field that is None leaves the column alone
MapFields(r, mapped) ==
    [r EXCEPT !.analysed_review = IF mapped.analysed_review # PyNone
                                  THEN mapped.analysed_review ELSE @,
              !.input_tokens = IF mapped.input_tokens # PyNone THEN mapped.input_tokens ELSE @,
              !.output_tokens = IF mapped.output_tokens # PyNone
                                THEN mapped.output_tokens ELSE @,
              !.total_tokens = IF mapped.total_tokens # PyNone THEN mapped.total_tokens ELSE @,
              !.analysis_output = IF mapped.analysis_output # PyNone
                                  THEN mapped.analysis_output ELSE @]

\* crud.update_analysis_result_output(db, r.id, output): the output is stored,
\* as it is when it is a str and serialized otherwise, the mapper of the
\* provider fills the canonical fields, and status, error and completed_at
\* are written. status_writes counts these writes of the row
update_analysis_result_output(r, output) ==
    LET stored == [r EXCEPT !.analysis_output =
                       IF output.t = "str" THEN output ELSE PyStr(json_dumps(output))]
        mapped == IF get_mapper_for_name(r.llm_provider)
                  THEN With(Mapped(output), LAMBDA m : MapFields(stored, m))
                  ELSE stored
    IN [mapped EXCEPT !.status = "complete", !.completed_at = TRUE,
                      !.status_writes = @ + 1]

\* The rows backfill_analysis_results selects
NeedsBackfill(r) == r.analysed_review = PyNone /\ r.analysis_output # PyNone

\* The name of the game of a review, "" when the review or the game is gone
GameNameOf(review_id, gs, rows) ==
    IF \E rev \in rows : rev.review_id = review_id /\ \E g \in gs : g.app_id = rev.app_id
    THEN (CHOOSE g \in gs : \E rev \in rows : rev.review_id = review_id /\ g.app_id = rev.app_id).name
    ELSE ""

\* The body of the loop of backfill_analysis_results for one selected row:
\* the mapper is run on the stored analysis_output and a missing game_name
\* is looked up
backfill_row(r, gs, rows) ==
    LET mapped == IF get_mapper_for_name(r.llm_provider)
                  THEN With(Mapped(r.analysis_output), LAMBDA m : MapFields(r, m))
                  ELSE r
    IN [mapped EXCEPT !.game_name = IF @ = "" THEN GameNameOf(r.review_id, gs, rows) ELSE @]

\* ---------------------------------------------------- the mapper at work

NoMapping ==
    [analysed_review |-> PyNone, input_tokens |-> PyNone, output_tokens |-> PyNone,
     total_tokens |-> PyNone, analysis_output |-> PyNone]

\* A response, the two runs of the mapper on it, and the result row it is
\* the output for
NewMapping(resp) ==
    [pc |-> "start", resp |-> resp, first |-> NoMapping, second |-> NoMapping,
     row |-> create_analysis_result(1, "1", "openai")]

\* openai_mapper(resp)
MapResponse ==
    /\ mapping.pc = "start"
    /\ mapping' = [mapping EXCEPT !.pc = "mapped", !.first = Mapped(mapping.resp)]
    /\ UNCHANGED <<adapter>>
    /\ UNCHANGED scraper_vars
    /\ UNCHANGED analysis_vars

\* openai_mapper on the analysis_output of the first run
MapAgain ==
    /\ mapping.pc = "mapped"
    /\ mapping' = [mapping EXCEPT !.pc = "remapped",
                                  !.second = Mapped(mapping.first.analysis_output)]
    /\ UNCHANGED <<adapter>>
    /\ UNCHANGED scraper_vars
    /\ UNCHANGED analysis_vars

\* update_analysis_result_output stores the response in its row
UpdateOutput ==
    /\ mapping.pc # "none"
    /\ mapping.row.status = "pending"
    /\ mapping' = [mapping EXCEPT !.row = update_analysis_result_output(@, mapping.resp)]
    /\ UNCHANGED <<adapter>>
    /\ UNCHANGED scraper_vars
    /\ UNCHANGED analysis_vars

\* backfill_analysis_results finds the row
BackfillRow ==
    /\ mapping.pc # "none"
    /\ NeedsBackfill(mapping.row)
    /\ mapping' = [mapping EXCEPT !.row = backfill_row(@, games, reviews)]
    /\ UNCHANGED <<adapter>>
    /\ UNCHANGED scraper_vars
    /\ UNCHANGED analysis_vars

\* One call of analyze_batch and one response for the mapper
ProviderInit ==
    /\ games = {GameBeta}
    /\ reviews = {ReviewRow(RA, 1, make_settings(<<>>))}
    /\ progress = NewProgress
    /\ tasks = <<>>
    /\ response = "none"
    /\ served = 0
    /\ AnalysisIdle
    /\ adapter \in {NewAdapter(inputs, args) :
                       inputs \in AdapterInputs, args \in {AnalyzeBatchParams, ProcessBatchArgs}}
    /\ mapping \in {NewMapping(resp) : resp \in Responses}

ProviderNext ==
    \/ Call
    \/ \E ok \in BOOLEAN, file_id \in BOOLEAN : Upload(ok, file_id)
    \/ \E ok \in BOOLEAN : CreateBatch(ok)
    \/ \E ok \in BOOLEAN, status \in PollStatuses, output_file_id \in BOOLEAN :
          Poll(ok, status, output_file_id)
    \/ Deadline
    \/ \E ok \in BOOLEAN, content \in Contents(adapter.inputs) : Download(ok, content)
    \/ \E raised \in BOOLEAN : Single(raised)
    \/ RequestRaises
    \/ MapResponse
    \/ MapAgain
    \/ UpdateOutput
    \/ BackfillRow

ProviderSpec == ProviderInit /\ [][ProviderNext]_vars

\* The thread that runs analyze_batch is scheduled and a poll request that was
\* sent is answered: the loop goes on to its next round or to its end
ProviderFairSpec ==
    /\ ProviderSpec
    /\ WF_vars(\E ok \in BOOLEAN, status \in PollStatuses, output_file_id \in BOOLEAN :
                  Poll(ok, status, output_file_id))
    /\ WF_vars(Deadline)

\* ------------------------------------------------------ the analysis engine

\* The progress callbacks one analyze_batch call makes at most
MaxCallbacks == 2

\* preview_analysis: limit when the payload names none
DefaultLimit == 50

\* _run_analysis_job: reviews_per_batch when the payload names none
DefaultReviewsPerBatch == 5

\* The rows of the model's review table, all of app_id 1
AnalysisReviews ==
    {ReviewRow(RA, 1, make_settings(<<>>)), ReviewRow(RB, 1, make_settings(<<>>)),
     ReviewRow(RC, 1, make_settings(<<>>))}

\* Payloads of POST /analysis/start. The keys a payload lacks take the
\* defaults of the code; the payloads of the model carry no date, review_type,
\* playtime, early_access or received_for_free key, so preview_analysis adds
\* none of those filters
AnalysisPayloads ==
    { [app_id |-> 1, reviews_per_batch |-> 1, batches_per_request |-> 2],
      [app_id |-> 1, reviews_per_batch |-> 2],
      [app_id |-> 1, reviews_per_batch |-> 2, batches_per_request |-> 2],
      [app_id |-> 1, reviews_per_batch |-> 1, limit |-> 2, language |-> "English"],
      [app_id |-> 1, offset |-> 1],
      [app_id |-> 1, limit |-> 2],
      [app_id |-> 2],
      [app_id |-> 1, provider |-> "local"] }

\* q.order_by(Review.review_date.desc())
RECURSIVE order_by_date_desc(_)
order_by_date_desc(rows) ==
    IF rows = {} THEN <<>>
    ELSE LET r == CHOOSE x \in rows : \A y \in rows : x.review_date >= y.review_date
         IN <<r>> \o order_by_date_desc(rows \ {r})

\* The query preview_analysis builds from the filter keys of the payload
preview_query(payload, rows) ==
    LET language == Get(payload, "language", "")
    IN {r \in rows :
          /\ ("app_id" \in DOMAIN payload => r.app_id = payload.app_id)
          /\ (language # "" /\ language # "Any" => Lower(r.language) = Lower(language))}

\* preview_analysis(payload, db).reviews: the rows that match the filters of
\* the payload, newest first, cut by offset and limit
preview_analysis(payload, rows) ==
    LET items == order_by_date_desc(preview_query(payload, rows))
        offset == Get(payload, "offset", 0)
        limit == Get(payload, "limit", DefaultLimit)
    IN SubSeq(items, offset + 1, Min2(Len(items), offset + limit))

\* A lookup that returns a provider whatever the name and the stored keys
get_provider_unchecked(keys, provider_name) == ""

\* get_provider_for_name: the message of the ValueError it raises, "" when it
\* returns a provider
get_provider_for_name(keys, provider_name) ==
    IF provider_name \notin keys THEN "No API key found for provider"
    ELSE IF provider_name # "openai" THEN "Unknown provider"
    ELSE ""

\* crud.create_analysis_job: the row of a new job
create_analysis_job ==
    [status |-> "pending", total_reviews |-> 0, processed_count |-> 0,
     started_at |-> FALSE, error |-> ""]

\* crud.create_analysis_result, once per review: the rows of the job, by id
create_analysis_results(revs, provider_name) ==
    [i \in 1..Len(revs) |-> create_analysis_result(i, revs[i].review_id, provider_name)]

\* [results[i : i + reviews_per_batch] for i in range(0, len(results), reviews_per_batch)],
\* each batch the ids of its rows
Batches(n, reviews_per_batch) ==
    [k \in 1..((n + reviews_per_batch - 1) \div reviews_per_batch) |->
        [j \in 1..Min2(reviews_per_batch, n - (k - 1) * reviews_per_batch) |->
            (k - 1) * reviews_per_batch + j]]

\* The frame of process_batch before it runs
NewBatchWorker ==
    [pc |-> "queued", baseline_count |-> 0, completed |-> 0, calls |-> 0,
     progress_reported |-> FALSE, read_count |-> 0, read_total |-> 0]

\* batches_per_request of the running job
BatchesPerRequest == Get(worker.payload, "batches_per_request", 1)

\* The batches whose process_batch is running
RunningBatches ==
    {b \in DOMAIN batch_workers :
        batch_workers[b].pc \in {"provider", "persist", "increment_read", "increment_write"}}

\* The tables and the engine before a job is started
AnalysisInit ==
    /\ games = {GameBeta}
    /\ reviews = AnalysisReviews
    /\ progress = NewProgress
    /\ tasks = <<>>
    /\ response = "none"
    /\ served = 0
    /\ api_keys \in {{"openai", "local"}, {}}
    /\ job = NoJob
    /\ results = <<>>
    /\ worker = IdleWorker
    /\ batch_workers = <<>>
    /\ ProviderIdle

\* start_analysis: the job row is created and the worker is scheduled
StartAnalysis(payload) ==
    /\ job.status = "none"
    /\ job' = create_analysis_job
    /\ worker' = [pc |-> "scheduled", payload |-> payload, batches |-> <<>>]
    /\ UNCHANGED <<api_keys, results, batch_workers>>
    /\ UNCHANGED scraper_vars
    /\ UNCHANGED provider_vars

\* The except clause of _run_analysis_job
JobError(message) ==
    /\ job' = [job EXCEPT !.status = "error", !.error = message]
    /\ worker' = [worker EXCEPT !.pc = "done"]

\* _run_analysis_job up to the dispatch: the reviews are selected, the provider
\* is looked up, one result row is created per review, total_reviews and
\* started_at are written and the batches are cut
WorkerBegin ==
    /\ worker.pc = "scheduled"
    /\ UNCHANGED <<api_keys>>
    /\ UNCHANGED scraper_vars
    /\ UNCHANGED provider_vars
    /\ \E revs \in {preview_analysis(worker.payload, reviews)} :
       \E message \in {get_provider_for_name(api_keys, Get(worker.payload, "provider", "openai"))} :
         IF message # ""
         THEN /\ JobError(message)
              /\ UNCHANGED <<results, batch_workers>>
         ELSE \E bs \in {Batches(Len(revs), Get(worker.payload, "reviews_per_batch",
                                                DefaultReviewsPerBatch))} :
                /\ results' = create_analysis_results(revs, Get(worker.payload, "provider",
                                                                "openai"))
                /\ job' = [job EXCEPT !.total_reviews = Len(revs), !.started_at = TRUE]
                /\ worker' = [worker EXCEPT !.pc = "dispatch", !.batches = bs]
                /\ batch_workers' = [b \in DOMAIN bs |-> NewBatchWorker]

\* process_batch entered for batch b whatever the number of batches running
BatchStart_Unbounded(b) ==
    /\ worker.pc = "dispatch"
    /\ b \in DOMAIN batch_workers
    /\ batch_workers[b].pc = "queued"
    /\ \A c \in 1..(b - 1) : batch_workers[c].pc # "queued"
    /\ batch_workers' = [batch_workers EXCEPT ![b].pc = "provider",
                                              ![b].baseline_count = job.processed_count]
    /\ UNCHANGED <<api_keys, job, results, worker>>
    /\ UNCHANGED scraper_vars
    /\ UNCHANGED provider_vars

\* process_batch is entered for batch b and reads its baseline in a session of
\* its own. Without a pool the batches run one after the other in the
\* worker; with a pool of batches_per_request threads they are taken from the
\* queue in order, as soon as a thread is free
BatchStart(b) ==
    /\ worker.pc = "dispatch"
    /\ b \in DOMAIN batch_workers
    /\ batch_workers[b].pc = "queued"
    /\ \A c \in 1..(b - 1) : batch_workers[c].pc # "queued"
    /\ IF BatchesPerRequest > 1
       THEN Cardinality(RunningBatches) < BatchesPerRequest
       ELSE RunningBatches = {}
    /\ batch_workers' = [batch_workers EXCEPT ![b].pc = "provider",
                                              ![b].baseline_count = job.processed_count]
    /\ UNCHANGED <<api_keys, job, results, worker>>
    /\ UNCHANGED scraper_vars
    /\ UNCHANGED provider_vars

\* progress_cb(completed, total), called by the provider while it works on
\* batch b: processed_count becomes baseline + completed and a total that is
\* not zero replaces total_reviews. A provider reports the inputs it has
\* completed so far, so completed does not go down between two calls
ProviderCallback(b, completed, total) ==
    /\ worker.pc = "dispatch"
    /\ b \in DOMAIN batch_workers
    /\ batch_workers[b].pc = "provider"
    /\ batch_workers[b].calls < MaxCallbacks
    /\ completed \in batch_workers[b].completed..Len(worker.batches[b])
    /\ total \in {0, Len(worker.batches[b])}
    /\ job' = [job EXCEPT !.processed_count = batch_workers[b].baseline_count + completed,
                          !.total_reviews = IF total # 0 THEN total ELSE @]
    /\ batch_workers' = [batch_workers EXCEPT ![b].completed = completed,
                                              ![b].calls = @ + 1,
                                              ![b].progress_reported = TRUE]
    /\ UNCHANGED <<api_keys, results, worker>>
    /\ UNCHANGED scraper_vars
    /\ UNCHANGED provider_vars

\* provider.analyze_batch returns its outputs for batch b
ProviderReturn(b) ==
    /\ worker.pc = "dispatch"
    /\ b \in DOMAIN batch_workers
    /\ batch_workers[b].pc = "provider"
    /\ batch_workers' = [batch_workers EXCEPT ![b].pc = "persist"]
    /\ UNCHANGED <<api_keys, job, results, worker>>
    /\ UNCHANGED scraper_vars
    /\ UNCHANGED provider_vars

\* provider.analyze_batch raises for batch b (a failed request, or the
\* TypeError of a provider whose analyze_batch takes no progress callback, as
\* OpenAIProvider's). In a pool thread the exception stays in the future,
\* which nobody asks for its result; without a pool it leaves process_batch
\* and the loop and reaches the except clause of the worker
ProviderRaise(b) ==
    /\ worker.pc = "dispatch"
    /\ b \in DOMAIN batch_workers
    /\ batch_workers[b].pc = "provider"
    /\ batch_workers' = [batch_workers EXCEPT ![b].pc = "failed"]
    /\ IF BatchesPerRequest > 1
       THEN UNCHANGED <<job, worker>>
       ELSE JobError("provider raised")
    /\ UNCHANGED <<api_keys, results>>
    /\ UNCHANGED scraper_vars
    /\ UNCHANGED provider_vars

\* What the provider of the model answers for a review: a chat completion,
\* and for review "2" an error body
ResponseFor(review_id) == IF review_id = "2" THEN ErrorBody ELSE ChatBody

\* The persist loop of batch b running over every row of the job
PersistOutputs_AllRows(b) ==
    /\ worker.pc = "dispatch"
    /\ b \in DOMAIN batch_workers
    /\ batch_workers[b].pc = "persist"
    /\ results' = [i \in DOMAIN results |->
                      update_analysis_result_output(results[i],
                                                    ResponseFor(results[i].review_id))]
    /\ batch_workers' = [batch_workers EXCEPT ![b].pc =
                            IF batch_workers[b].progress_reported
                            THEN "finished" ELSE "increment_read"]
    /\ UNCHANGED <<api_keys, job, worker>>
    /\ UNCHANGED scraper_vars
    /\ UNCHANGED provider_vars

\* crud.update_analysis_result_output for every row of batch b, with the
\* output the provider returned for it
PersistOutputs(b) ==
    /\ worker.pc = "dispatch"
    /\ b \in DOMAIN batch_workers
    /\ batch_workers[b].pc = "persist"
    /\ results' = [i \in DOMAIN results |->
                      IF i \in Range(worker.batches[b])
                      THEN update_analysis_result_output(results[i],
                                                         ResponseFor(results[i].review_id))
                      ELSE results[i]]
    /\ batch_workers' = [batch_workers EXCEPT ![b].pc =
                            IF batch_workers[b].progress_reported
                            THEN "finished" ELSE "increment_read"]
    /\ UNCHANGED <<api_keys, job, worker>>
    /\ UNCHANGED scraper_vars
    /\ UNCHANGED provider_vars

\* The post-batch increment, first half: the job row is read in a new session
IncrementRead(b) ==
    /\ worker.pc = "dispatch"
    /\ b \in DOMAIN batch_workers
    /\ batch_workers[b].pc = "increment_read"
    /\ batch_workers' = [batch_workers EXCEPT ![b].pc = "increment_write",
                                              ![b].read_count = job.processed_count,
                                              ![b].read_total = job.total_reviews]
    /\ UNCHANGED <<api_keys, job, results, worker>>
    /\ UNCHANGED scraper_vars
    /\ UNCHANGED provider_vars

\* The post-batch increment, second half: min(total_reviews, processed_count +
\* len(batch)) of the values read is written and committed
IncrementWrite(b) ==
    /\ worker.pc = "dispatch"
    /\ b \in DOMAIN batch_workers
    /\ batch_workers[b].pc = "increment_write"
    /\ job' = [job EXCEPT !.processed_count =
                  Min2(batch_workers[b].read_total,
                       batch_workers[b].read_count + Len(worker.batches[b]))]
    /\ batch_workers' = [batch_workers EXCEPT ![b].pc = "finished"]
    /\ UNCHANGED <<api_keys, results, worker>>
    /\ UNCHANGED scraper_vars
    /\ UNCHANGED provider_vars

\* The end of the worker without the write of the status
WorkerFinish_KeepsStatus ==
    /\ worker.pc = "dispatch"
    /\ \A b \in DOMAIN batch_workers : batch_workers[b].pc \in {"finished", "failed"}
    /\ worker' = [worker EXCEPT !.pc = "done"]
    /\ UNCHANGED <<api_keys, job, results, batch_workers>>
    /\ UNCHANGED scraper_vars
    /\ UNCHANGED provider_vars

\* Every batch has been processed, or its future is done: the job is completed
WorkerFinish ==
    /\ worker.pc = "dispatch"
    /\ \A b \in DOMAIN batch_workers : batch_workers[b].pc \in {"finished", "failed"}
    /\ job' = [job EXCEPT !.status = "completed"]
    /\ worker' = [worker EXCEPT !.pc = "done"]
    /\ UNCHANGED <<api_keys, results, batch_workers>>
    /\ UNCHANGED scraper_vars
    /\ UNCHANGED provider_vars

\* backfill_analysis_results (POST /analysis/backfill), at any time: every
\* row with an analysis_output and without an analysed_review is mapped again
\* and gets its game_name (the limit of the call is above the rows of the
\* model). With no such row the call changes nothing
Backfill ==
    /\ \E i \in DOMAIN results : NeedsBackfill(results[i])
    /\ results' = [i \in DOMAIN results |->
                      IF NeedsBackfill(results[i])
                      THEN backfill_row(results[i], games, reviews)
                      ELSE results[i]]
    /\ UNCHANGED <<api_keys, job, worker, batch_workers>>
    /\ UNCHANGED scraper_vars
    /\ UNCHANGED provider_vars

\* The batches a job of the model has at most
MaxBatches == Cardinality(AnalysisReviews)

\* The steps of the thread that runs batch b
BatchStep(b) ==
    \/ BatchStart(b)
    \/ ProviderReturn(b)
    \/ ProviderRaise(b)
    \/ PersistOutputs(b)
    \/ IncrementRead(b)
    \/ IncrementWrite(b)

AnalysisNext ==
    \/ \E payload \in AnalysisPayloads : StartAnalysis(payload)
    \/ WorkerBegin
    \/ \E b \in 1..MaxBatches : BatchStart(b)
    \/ \E b \in 1..MaxBatches, completed \in 0..MaxBatches, total \in 0..MaxBatches :
          ProviderCallback(b, completed, total)
    \/ \E b \in 1..MaxBatches : ProviderReturn(b)
    \/ \E b \in 1..MaxBatches : ProviderRaise(b)
    \/ \E b \in 1..MaxBatches : PersistOutputs(b)
    \/ \E b \in 1..MaxBatches : IncrementRead(b)
    \/ \E b \in 1..MaxBatches : IncrementWrite(b)
    \/ WorkerFinish
    \/ Backfill

AnalysisSpec == AnalysisInit /\ [][AnalysisNext]_vars

\* The worker and the batch threads are scheduled, and a call of the provider
\* returns or raises
AnalysisFairSpec ==
    /\ AnalysisSpec
    /\ WF_vars(WorkerBegin)
    /\ WF_vars(WorkerFinish)
    /\ \A b \in 1..MaxBatches : WF_vars(BatchStep(b))

\* ------------------------------------------------- claims about the analysis

Terminal == {"completed", "error"}

\* C17: a job is created with status pending; its status only advances, from
\* pending to completed or error, and a status of completed or error never
\* changes again; every job whose worker is scheduled eventually is completed
\* or error.
C17_StatusAdvances ==
    /\ [][/\ (job.status = "none" /\ job'.status # "none" => job'.status = "pending")
          /\ (job.status = "pending" => job'.status \in {"pending"} \cup Terminal)
          /\ (job.status \in Terminal => job'.status = job.status)]_vars
    /\ (worker.pc = "scheduled" ~> job.status \in Terminal)

\* A job whose three batches ran in a pool is completed, another ended in error
C17_Witness ==
    /\ job.status = "completed"
    /\ worker.pc = "done"
    /\ Len(batch_workers) = 3
    /\ \A b \in DOMAIN batch_workers : batch_workers[b].pc = "finished"
    /\ job.started_at

\* C18: while a batch is with the provider the status of the job is running:
\* no batch is sent to a provider while the status is still pending. The
\* worker writes total_reviews and started_at and never a status of running.
C18_RunningWhileDispatched ==
    \A b \in DOMAIN batch_workers :
        batch_workers[b].pc = "provider" => job.status = "running"

\* C19: once total_reviews has been set, the stored processed_count is at most
\* the stored total_reviews, whichever of the progress callback and the
\* post-batch increment wrote it and however the batch workers interleave.
C19_ProcessedWithinTotal ==
    job.started_at => job.processed_count <= job.total_reviews

\* C20: the stored processed_count of a job never decreases, however the
\* baseline reads, the progress-callback writes and the post-batch increments
\* of the concurrent batch workers interleave.
C20_ProcessedMonotonic ==
    [][job'.processed_count >= job.processed_count]_vars

\* C21: when the worker materializes the results it creates exactly one
\* pending row for every stored review that matches the filters of the
\* payload and none for another review, and total_reviews is their number.
C21_OneResultPerMatch ==
    [][worker.pc = "scheduled" /\ worker'.pc = "dispatch"
       => LET matching == preview_query(worker.payload, reviews)
          IN /\ Len(results') = Cardinality(matching)
             /\ {results'[i].review_id : i \in DOMAIN results'}
                   = {r.review_id : r \in matching}
             /\ \A i \in DOMAIN results' : results'[i].status = "pending"
             /\ job'.total_reviews = Cardinality(matching)]_vars

\* C22: when the call of the provider raised for a batch of a job, the job
\* ends with status error and an error string that is not empty, never with
\* completed, with the batches run one after the other and with a pool alike.
C22_RaiseEndsInError ==
    /\ worker.pc = "done"
    /\ \E b \in DOMAIN batch_workers : batch_workers[b].pc = "failed"
    => job.status = "error" /\ job.error # ""

\* C23: a call of analyze_batch made as process_batch makes it runs the body
\* of the method, where a rejected creation of the batch falls back to one
\* analyze_single call per input whose outputs populate the rows of a job
\* that is completed: the call does not end in a TypeError before any request
\* is sent.
C23_WorkerCallFallsBack ==
    adapter.pc # "none" /\ adapter.args = ProcessBatchArgs => adapter.pc # "type_error"

\* The inputs of the analyze_single calls made so far, in the order of the calls
SingleCalls ==
    LET singles == SelectSeq(adapter.calls, LAMBDA c : c.req = "single")
    IN [k \in DOMAIN singles |-> singles[k].input]

\* C24: when a stage of analyze_batch fails (the upload is not ok or has no
\* file id, the creation is not ok, a poll is not ok, the last status seen is
\* not completed, the output file id is missing, the download is not ok) the
\* call makes exactly one analyze_single call per input, in the order of the
\* inputs, and returns a list as long as the inputs with the output of input
\* k at place k; and the output file is requested only after a status of
\* completed has been seen.
C24_FallbackPerInput ==
    /\ adapter.pc \in {"single", "returned"} /\ adapter.fallback # ""
       => /\ SingleCalls = SubSeq(adapter.inputs, 1, Len(SingleCalls))
          /\ Len(adapter.result) = Len(SingleCalls)
          /\ \A k \in DOMAIN adapter.result :
                /\ adapter.result[k].kind \in {"single", "error"}
                /\ adapter.result[k].input = adapter.inputs[k]
          /\ (adapter.pc = "returned" => Len(adapter.result) = Len(adapter.inputs))
    /\ adapter.pc # "none" /\ adapter.fallback = "" => SingleCalls = <<>>
    /\ adapter.pc # "none" /\ (\E k \in DOMAIN adapter.calls : adapter.calls[k].req = "download")
       => adapter.status = "completed"

\* The download of a completed batch was not ok and both inputs were answered
\* by analyze_single in its place
C24_Witness ==
    /\ adapter.pc = "returned"
    /\ adapter.fallback = "download"
    /\ adapter.inputs = <<1, 2>>
    /\ SingleCalls = <<1, 2>>
    /\ Len(adapter.result) = 2

\* C25: the list analyze_batch returns has exactly one response per input and
\* the response at place k belongs to input k, whatever the order and the
\* number of the lines of the output file.
C25_AlignedWithInputs ==
    adapter.pc = "returned"
    => /\ Len(adapter.result) = Len(adapter.inputs)
       /\ \A k \in DOMAIN adapter.result : adapter.result[k].input = adapter.inputs[k]

\* C26: the status of a result row leaves pending at most once. A row whose
\* status is complete or error keeps its status, and nothing writes its
\* status again: not the persist loop of another batch of the job, not a
\* progress callback, not the backfill.
C26_StatusWrittenOnce ==
    [][\A i \in DOMAIN results :
          /\ i \in DOMAIN results'
          /\ results'[i].status_writes <= 1
          /\ results[i].status # "pending"
             => /\ results'[i].status = results[i].status
                /\ results'[i].status_writes = results[i].status_writes]_vars

\* Two batches of a job have been persisted one after the other, a progress
\* callback has run and the backfill has filled the game name of a row that
\* was complete: every row has had its status written once
C26_Witness ==
    /\ Len(batch_workers) >= 2
    /\ \A i \in DOMAIN results :
          results[i].status = "complete" /\ results[i].status_writes = 1
    /\ \E i \in DOMAIN results :
          results[i].game_name # "" /\ results[i].analysed_review = PyNone
    /\ \E b \in DOMAIN batch_workers : batch_workers[b].progress_reported

\* C27: when the mapper extracts nothing from the response stored for a row,
\* the row has the raw output in analysis_output (the response itself when it
\* is a string, its serialization otherwise), status complete and
\* completed_at set, and its canonical fields are null.
C27_RawOutputRetained ==
    /\ mapping.pc # "none"
    /\ mapping.row.status # "pending"
    /\ \A f \in {"analysed_review", "input_tokens", "output_tokens", "total_tokens"} :
          Mapped(mapping.resp)[f] = PyNone
    => /\ mapping.row.analysis_output =
             IF mapping.resp.t = "str" THEN mapping.resp ELSE PyStr(json_dumps(mapping.resp))
       /\ mapping.row.status = "complete"
       /\ mapping.row.completed_at
       /\ mapping.row.analysed_review = PyNone
       /\ mapping.row.input_tokens = PyNone
       /\ mapping.row.output_tokens = PyNone
       /\ mapping.row.total_tokens = PyNone

\* The provider the running job asks for
ProviderName == Get(worker.payload, "provider", "openai")

C29_MapperIdempotent ==
    mapping.pc = "remapped" => mapping.second = mapping.first

\* A JSON object between text that is not JSON
EmbeddedObject == PyStr(<<Text("Result:"), Json(ChatBody, "compact"), Text("done")>>)

\* C30: for a string response that holds a JSON object between text before
\* and after it, the mapper finds the object: analysed_review is the content
\* of the first choice, the token counts are those of usage, and
\* analysis_output is the serialization of the object.
C30_EmbeddedObjectFound ==
    mapping.pc = "mapped" /\ mapping.resp = EmbeddedObject
    => /\ mapping.first.analysed_review = Str("OK")
       /\ mapping.first.input_tokens = PyInt(3)
       /\ mapping.first.output_tokens = PyInt(4)
       /\ mapping.first.total_tokens = PyInt(7)
       /\ mapping.first.analysis_output = PyStr(json_dumps(ChatBody))

\* ----------------------------------------------------------- the active games

\* The bodies of POST /games/active: two titles, under one name or another
GameInputs == {[app_id |-> a, name |-> n] : a \in {1, 2, 3}, n \in {"Alpha", "Beta"}}

\* crud.get_game: the rows with that app_id (first() takes one of them)
get_game(gs, app_id) == {g \in gs : g.app_id = app_id}

\* create_game without the lookup of the existing row
create_game_NoLookup(gs, game_in) ==
    [games |-> gs \cup {game_in}, game |-> game_in]

\* crud.create_game: the existing row of the app_id when there is one,
\* otherwise a new row is inserted; the table after the call and the row
\* returned
create_game(gs, game_in) ==
    IF get_game(gs, game_in.app_id) # {}
    THEN [games |-> gs, game |-> CHOOSE g \in get_game(gs, game_in.app_id) : TRUE]
    ELSE [games |-> gs \cup {game_in}, game |-> game_in]

\* delete_game without the cascade of Game.reviews
delete_game_KeepsReviews(gs, rows, app_id) ==
    IF get_game(gs, app_id) = {}
    THEN [found |-> FALSE, games |-> gs, reviews |-> rows]
    ELSE [found |-> TRUE, games |-> gs \ get_game(gs, app_id), reviews |-> rows]

\* crud.delete_game: False when there is no row; otherwise the row is
\* deleted, and with it its reviews (Game.reviews, cascade "all, delete-orphan")
delete_game(gs, rows, app_id) ==
    IF get_game(gs, app_id) = {}
    THEN [found |-> FALSE, games |-> gs, reviews |-> rows]
    ELSE [found |-> TRUE, games |-> gs \ get_game(gs, app_id),
          reviews |-> {r \in rows : r.app_id # app_id}]

\* POST /games/active
add_active_game(game_in) ==
    /\ \E created \in {create_game(games, game_in)} :
          /\ games' = created.games
          /\ response' = [op |-> "add", request |-> game_in, status_code |-> 201,
                          body |-> created.game]
    /\ UNCHANGED <<reviews, progress, tasks, served>>
    /\ UNCHANGED analysis_vars
    /\ UNCHANGED provider_vars

\* DELETE /games/active/{app_id}
remove_active_game(app_id) ==
    /\ \E deleted \in {delete_game(games, reviews, app_id)} :
          /\ games' = deleted.games
          /\ reviews' = deleted.reviews
          /\ response' = [op |-> "remove", request |-> app_id,
                          status_code |-> IF deleted.found THEN 204 ELSE 404,
                          body |-> IF deleted.found THEN "" ELSE "Game not found"]
    /\ UNCHANGED <<progress, tasks, served>>
    /\ UNCHANGED analysis_vars
    /\ UNCHANGED provider_vars

\* GET /games/active
list_active_games ==
    /\ response' = [op |-> "list", request |-> "", status_code |-> 200,
                    body |-> list_games(games)]
    /\ UNCHANGED <<games, reviews, progress, tasks, served>>
    /\ UNCHANGED analysis_vars
    /\ UNCHANGED provider_vars

\* The tables before a request: no game, or games with reviews stored for them
GamesInit ==
    /\ \E st \in { [games |-> {}, reviews |-> {}],
                   [games |-> {GameBeta},
                    reviews |-> {ReviewRow(RA, 1, make_settings(<<>>)),
                                 ReviewRow(RB, 1, make_settings(<<>>))}],
                   [games |-> {GameAlpha, GameBeta},
                    reviews |-> {ReviewRow(RA, 1, make_settings(<<>>)),
                                 ReviewRow(RC, 2, make_settings(<<>>))}] } :
          games = st.games /\ reviews = st.reviews
    /\ progress = NewProgress
    /\ tasks = <<>>
    /\ response = [op |-> "none", request |-> "", status_code |-> 0, body |-> ""]
    /\ served = 0
    /\ AnalysisIdle
    /\ ProviderIdle

GamesNext ==
    \/ \E game_in \in GameInputs : add_active_game(game_in)
    \/ \E app_id \in {1, 2, 3} : remove_active_game(app_id)
    \/ list_active_games

GamesSpec == GamesInit /\ [][GamesNext]_vars

\* -------------------------------------------------- claims about the games

\* The row of app_id in the list GET /games/active would answer with
InActiveList(gs, app_id) ==
    \E k \in DOMAIN list_games(gs) : list_games(gs)[k].app_id = app_id

\* C31: after any sequence of add-game and remove-game operations there is at
\* most one Game row per app_id; adding an app_id that is active returns the
\* existing row and changes nothing, its name included, and a game that was
\* added is in the active list.
C31_OneRowPerApp ==
    /\ [](\A g, h \in games : g.app_id = h.app_id => g = h)
    /\ [][response'.op = "add"
          => LET game_in == response'.request
                 existing == {g \in games : g.app_id = game_in.app_id}
             IN /\ existing # {} => /\ games' = games
                                    /\ response'.body \in existing
                /\ existing = {} => /\ games' = games \cup {game_in}
                                    /\ response'.body = game_in
                /\ reviews' = reviews
                /\ response'.status_code = 201
                /\ InActiveList(games', game_in.app_id)]_vars

\* Title 1 is active as Beta and was added again as Alpha: one row, still Beta
C31_Witness ==
    /\ response.op = "add"
    /\ response.request = [app_id |-> 1, name |-> "Alpha"]
    /\ response.body = GameBeta
    /\ GameBeta \in games
    /\ Cardinality(games) = 2

\* C32: removing an active game deletes its Game row and every Review row of
\* its app_id and leaves the other rows alone, and the game is not in the
\* active list afterwards; removing an app_id that is not active answers
\* not found and changes nothing.
C32_RemoveCascades ==
    [][response'.op = "remove"
       => LET app_id == response'.request
          IN IF \E g \in games : g.app_id = app_id
             THEN /\ response'.status_code = 204
                  /\ games' = {g \in games : g.app_id # app_id}
                  /\ reviews' = {r \in reviews : r.app_id # app_id}
                  /\ ~InActiveList(games', app_id)
             ELSE /\ response'.status_code = 404
                  /\ games' = games
                  /\ reviews' = reviews]_vars

\* Title 1 was removed with its two reviews; title 2 and its review are kept
C32_Witness ==
    /\ response.op = "remove"
    /\ response.request = 1
    /\ response.status_code = 204
    /\ games = {GameAlpha}
    /\ reviews = {ReviewRow(RC, 2, make_settings(<<>>))}

\* ------------------------------------------ more claims about the analysis

MaxLogCalls == 5

\* A log of n entries of earlier calls, each the time of its call and its
\* message
FilledLog(n) == [i \in 1..n |-> [at |-> i, message |-> "earlier"]]

\* The entries of the log() calls of this run that are in the log
LogCalls(l) == SelectSeq(l, LAMBDA e : e.message # "earlier")

\* The time of a call of log(): later than every entry of the log
Now(l) == IF l = <<>> THEN 1 ELSE l[Len(l)].at + 1

\* progress.log(message)
LogCall(message) ==
    /\ Len(LogCalls(progress.logs)) < MaxLogCalls
    /\ progress' = Log(progress, [at |-> Now(progress.logs), message |-> message])
    /\ UNCHANGED <<games, reviews, tasks, response, served>>
    /\ UNCHANGED analysis_vars
    /\ UNCHANGED provider_vars

\* A Progress whose log is empty, one entry short of the cap, or at the cap
LogInit ==
    /\ games = {}
    /\ reviews = {}
    /\ \E n \in {0, LogCap - 1, LogCap} :
          progress = [NewProgress EXCEPT !.logs = FilledLog(n)]
    /\ tasks = <<>>
    /\ response = "none"
    /\ served = 0
    /\ AnalysisIdle
    /\ ProviderIdle

LogNext == \E message \in {"a", "b"} : LogCall(message)

LogSpec == LogInit /\ [][LogNext]_vars

\* C35: after any sequence of log() calls the log holds at most LogCap
\* entries, and they are the entries appended last, in the order they were
\* appended: a call puts its entry at the end, keeps the entries before it in
\* their order and drops only the oldest ones, as many as exceed the cap.
C35_LogKeepsLatest ==
    /\ [](Len(progress.logs) <= LogCap)
    /\ [][progress'.logs # progress.logs
          => LET old == progress.logs
                 new == progress'.logs
                 n == Len(new)
             IN /\ n = Min2(Len(old) + 1, LogCap)
                /\ \A k \in 1..(n - 1) : new[k] = old[Len(old) - (n - 1) + k]
                /\ \A k \in DOMAIN old : new[n].at > old[k].at]_vars

\* The log is full, its two oldest entries have been dropped and the entry
\* of the last call is at its end
C35_Witness ==
    /\ Len(progress.logs) = LogCap
    /\ progress.logs[1].at = 3
    /\ progress.logs[LogCap] = [at |-> LogCap + 2, message |-> "b"]

\* --------------------------------------------- more claims about the scraper

\* The messages in the log of the current run
Logged == {progress.logs[k] : k \in DOMAIN progress.logs}

\* C36: whenever the run task ends (after its last title, after a stop, or
\* because an exception left the fetch loop of a title) is_running is false,
\* current_game is cleared and 'Scraper finished' is the last entry of the
\* log; with no run task alive is_running is false, so that a start() made
\* then is not answered 'Scraper already running'.
C36_RunEndsClean ==
    /\ [][\A t \in DOMAIN tasks :
             tasks[t].pc # "done" /\ tasks'[t].pc = "done"
             => /\ ~progress'.is_running
                /\ progress'.current_game = NoGame
                /\ progress'.logs # <<>>
                /\ progress'.logs[Len(progress'.logs)] = "Scraper finished"]_vars
    /\ [](LiveTasks = {} => ~progress.is_running)
    /\ [][response' = AlreadyRunning /\ response # AlreadyRunning => LiveTasks # {}]_vars

\* A run ended because the page request of its title failed: no title was
\* completed, nobody asked for a stop, and the run has finished
C36_Witness ==
    /\ tasks # <<>>
    /\ LiveTasks = {}
    /\ ~progress.is_running
    /\ progress.current_game = NoGame
    /\ progress.logs[Len(progress.logs)] = "Scraper finished"
    /\ "Computed remaining_needed" \in Logged
    /\ Logged \cap {"Scrape complete", "Finished: skipped scraping", "Stop requested"} = {}

\* C37: during a run current_game_scraped is the number of stored reviews of
\* the current title that match its filters: the count found when the title
\* was begun plus the reviews committed since, also after a page whose commit
\* was rolled back.
C37_ScrapedIsStoredCount ==
    \A t \in InTitle :
        progress.current_game_scraped =
            Cardinality(Matching(reviews, tasks[t].active_games[tasks[t].idx].app_id,
                                 tasks[t].settings_for_game))

\* C38: when the status of a job is completed none of its result rows is
\* still pending: every row of the job has status complete or error. A batch
\* whose provider call raised in a pool thread leaves its rows pending and the
\* worker still writes completed.
C38_NoPendingWhenCompleted ==
    job.status = "completed"
    => \A i \in DOMAIN results : results[i].status \in {"complete", "error"}

\* C39: when a job completes whose provider returned for every batch and
\* never called the progress callback, the stored processed_count equals
\* total_reviews, whatever batches_per_request is and however the reads and
\* the writes of the post-batch increments of the batch workers interleave.
\* Two pool threads that read the job row before either writes lose one of
\* the two increments.
C39_AllProcessedAtCompletion ==
    /\ job.status = "completed"
    /\ \A b \in DOMAIN batch_workers :
          batch_workers[b].pc = "finished" /\ ~batch_workers[b].progress_reported
    => job.processed_count = job.total_reviews

\* C40: every title is scraped with effective settings, the global settings
\* overlaid with the override of the title, in which max_playtime is above
\* min_playtime whenever both are set: start() accepts no payload whose merged
\* settings for a title have max_playtime <= min_playtime. start() tests the
\* global settings and each override on their own, never the merge.
C40_MergedPlaytimeValid ==
    \A t \in InTitle :
        LET s == tasks[t].settings_for_game
        IN s.min_playtime # None /\ s.max_playtime # None
           => s.max_playtime > s.min_playtime

=========================================================================
